---- MODULE Spec2Model ----
(***************************************************************************)
(* Model of fastsigneddata.py: signed-message envelopes, their decoding,   *)
(* the sequence-transition rule, the destination check, the expiration     *)
(* check and the trust evaluation signeddata_shouldtrust.                  *)
(*                                                                         *)
(* Python strings are sequences of one-character strings, so that          *)
(* rsplit('!', k), split(':') and slicing are computed, not assumed.       *)
(* An optional Python value is None == <<>> or Some(x) == <<x>>.           *)
(* A call's outcome is a record [raised, val]: raised = "none" when the    *)
(* call returned val, otherwise the name of the exception that escaped.    *)
(***************************************************************************)
EXTENDS Integers, Sequences, FiniteSets, TLC

\* ------------------------------------------------------------------ bounds
\* Largest timestamp / expiration / clock value drawn as an input.
MaxTime == 1
\* Largest sequence counter drawn as an input.
MaxCounter == 2
\* Longest history of trusted messages the receiver process records.
MaxLog == 4

\* ------------------------------------------------------- values and outcomes
None == <<>>
Some(x) == <<x>>

Ok(v) == [raised |-> "none", val |-> v]
Raise(e, msg) == [raised |-> e, val |-> msg]

\* ------------------------------------------------------------------ strings
sNone == <<"N", "o", "n", "e">>

DigitChars == <<"0", "1", "2", "3", "4", "5", "6", "7", "8", "9">>

Contains(s, c) == \E i \in 1..Len(s) : s[i] = c

\* Python's s.rsplit(c, maxsplit): at most maxsplit cuts, from the right; i is
\* the index of the last occurrence of c in s, 0 when there is none.
RECURSIVE rsplit(_, _, _)
rsplit(s, c, maxsplit) ==
  LET i == IF \A j \in 1..Len(s) : s[j] # c THEN 0
           ELSE CHOOSE j \in 1..Len(s) : s[j] = c /\ \A l \in (j + 1)..Len(s) : s[l] # c
  IN  IF maxsplit = 0 \/ i = 0 THEN <<s>>
      ELSE Append(rsplit(SubSeq(s, 1, i - 1), c, maxsplit - 1), SubSeq(s, i + 1, Len(s)))

\* Python's str(n) of an integer.
RECURSIVE NatToStr(_)
NatToStr(n) ==
  IF n < 10 THEN <<DigitChars[n + 1]>>
  ELSE NatToStr(n \div 10) \o <<DigitChars[(n % 10) + 1]>>

IsDigits(s) ==
  /\ Len(s) > 0
  /\ \A i \in 1..Len(s) : \E d \in 1..10 : DigitChars[d] = s[i]

RECURSIVE DigitsToNat(_)
DigitsToNat(s) ==
  IF Len(s) = 0 THEN 0
  ELSE 10 * DigitsToNat(SubSeq(s, 1, Len(s) - 1))
         + (CHOOSE d \in 0..9 : DigitChars[d + 1] = s[Len(s)])

\* str.strip() removes the whitespace at both ends: space, '\t', '\n', '\r',
\* '\f' and the vertical tab '\x0b' (the last character of the set).
RECURSIVE LStrip(_)
LStrip(s) == IF Len(s) > 0 /\ s[1] \in {" ", "\t", "\n", "\r", "\f", ""} THEN LStrip(Tail(s)) ELSE s

RECURSIVE RStrip(_)
RStrip(s) ==
  IF Len(s) > 0 /\ s[Len(s)] \in {" ", "\t", "\n", "\r", "\f", ""}
    THEN RStrip(SubSeq(s, 1, Len(s) - 1))
  ELSE s

\* Index of the first occurrence of c in s, 0 when there is none.
FirstIndex(s, c) ==
  IF \A i \in 1..Len(s) : s[i] # c THEN 0
  ELSE CHOOSE i \in 1..Len(s) : s[i] = c /\ \A j \in 1..(i - 1) : s[j] # c

\* ----------------------------------------------------------------- numbers
\* A natural number of any size is the sequence of its decimal digits, the
\* most significant first.  A Python number is a record [kind, sign, m, e]:
\*   kind "int"    the int (or long) sign * m, with e = 0;
\*   kind "float"  the double of the exact value sign * m * 10^e (every
\*                 double has a finite decimal expansion);
\*   kind "inf"    the float sign * infinity;
\*   kind "nan"    the float nan;
\*   kind "other"  a value that is no number (a string), where the code tests
\*                 the type of a value.
\* m has no leading zero and, in a float, no trailing zero; zero is <<0>>
\* with e = 0, and the float zero keeps its sign.
PyNumber(kind, sign, m, e) == [kind |-> kind, sign |-> sign, m |-> m, e |-> e]

\* The digits of a numeral, and the numeral of digits.
Digits(s) == [i \in 1..Len(s) |-> CHOOSE d \in 0..9 : DigitChars[d + 1] = s[i]]
Numeral(m) == [i \in 1..Len(m) |-> DigitChars[m[i] + 1]]

\* The position of the first digit of m that is not 0, and of the last one;
\* Len(m) when every digit is 0.
Leading(m) ==
  IF \A i \in 1..Len(m) : m[i] = 0 THEN Len(m)
  ELSE CHOOSE i \in 1..Len(m) : m[i] # 0 /\ \A j \in 1..(i - 1) : m[j] = 0

Trailing(m) ==
  IF \A i \in 1..Len(m) : m[i] = 0 THEN Len(m)
  ELSE CHOOSE i \in 1..Len(m) : m[i] # 0 /\ \A j \in (i + 1)..Len(m) : m[j] = 0

\* The int (or long) sign * m, m with any number of leading zeros.
PyLong(sign, m) ==
  PyNumber("int", IF m[Leading(m)] = 0 THEN 1 ELSE sign, SubSeq(m, Leading(m), Len(m)), 0)

PyInt(n) == PyLong(IF n < 0 THEN 0 - 1 ELSE 1, Digits(NatToStr(IF n < 0 THEN 0 - n ELSE n)))

\* The float of the exact value sign * m * 10^e, m with any number of
\* leading and trailing zeros.
PyFloat(sign, m, e) ==
  IF m[Leading(m)] = 0 THEN PyNumber("float", sign, <<0>>, 0)
  ELSE PyNumber("float", sign, SubSeq(m, Leading(m), Trailing(m)), e + Len(m) - Trailing(m))

PyInf(sign) == PyNumber("inf", sign, <<0>>, 0)
PyNaN == PyNumber("nan", 1, <<0>>, 0)

IsNumber(x) == x.kind \in {"int", "float", "inf", "nan"}

\* The decimal exponent of a finite number that is not zero: the power of 10
\* of its leading digit.
LeadExponent(x) == Len(x.m) - 1 + x.e

\* -1, 0 or 1 as the number is below, at or above zero.
Signum(x) == IF x.kind \in {"int", "float"} /\ x.m[1] = 0 THEN 0 ELSE x.sign

\* |a| < |b|, for numbers other than nan and zero: of two with one decimal
\* exponent, the one whose digits, filled up with zeros, come first.
MagnitudeLt(a, b) ==
  IF a.kind = "inf" THEN FALSE
  ELSE IF b.kind = "inf" THEN TRUE
  ELSE IF LeadExponent(a) # LeadExponent(b) THEN LeadExponent(a) < LeadExponent(b)
  ELSE LET Lt(x, y) == \E i \in 1..Len(x) : x[i] < y[i] /\ \A j \in 1..(i - 1) : x[j] = y[j]
       IN  Lt(a.m \o [i \in 1..Len(b.m) |-> 0], b.m \o [i \in 1..Len(a.m) |-> 0])

\* Python 2's a < b: false when either is nan; a value that is no number is
\* above every number.
FloatLt(a, b) ==
  IF a.kind = "other" THEN FALSE
  ELSE IF b.kind = "other" THEN TRUE
  ELSE IF a.kind = "nan" \/ b.kind = "nan" THEN FALSE
  ELSE IF Signum(a) # Signum(b) THEN Signum(a) < Signum(b)
  ELSE IF Signum(a) = 1 THEN MagnitudeLt(a, b)
  ELSE IF Signum(a) = 0 - 1 THEN MagnitudeLt(b, a)
  ELSE FALSE

FloatGt(a, b) == FloatLt(b, a)

FloatEq(a, b) ==
  IF a.kind = "other" \/ b.kind = "other" THEN a.kind = b.kind
  ELSE a.kind # "nan" /\ b.kind # "nan" /\ ~FloatLt(a, b) /\ ~FloatLt(b, a)

\* The digits of m + 1 behind a leading zero: the last digit that is not 9
\* (at position p of n, m behind a zero) goes up and the nines behind it go
\* to 0.
Successor(m) ==
  LET p == 1 + (CHOOSE q \in 0..Len(m) : (q = 0 \/ m[q] # 9) /\ \A j \in (q + 1)..Len(m) : m[j] = 9)
      n == <<0>> \o m
  IN  <<>> \o [i \in 1..Len(n) |-> IF i < p THEN n[i] ELSE IF i = p THEN n[i] + 1 ELSE 0]

\* n + 1 for an int n; below zero the last digit of |n| that is not 0 goes
\* down and the zeros behind it go to 9.
Increment(n) ==
  IF n.sign = 1 THEN PyLong(1, Successor(n.m))
  ELSE PyLong(0 - 1, <<>> \o [i \in 1..Len(n.m) |->
                                IF i < Trailing(n.m) THEN n.m[i]
                                ELSE IF i = Trailing(n.m) THEN n.m[i] - 1
                                ELSE 9])

\* The digits of m * k behind leading zeros, for k up to 10000: m is filled
\* up with zeros in front to groups of four digits.  Limb(n, i) is the i-th
\* group of n as a number.  Sums(n) is, group by group, the low four digits
\* of the group's product with k plus what the product of the group behind
\* it has above them: a number below 20000.  In Carried(s) a group gets a
\* carry when the first group behind it that is not 9999 is above 9999.
MulSmall(m, k) ==
  LET Limb(n, i) == 1000 * n[4 * i - 3] + 100 * n[4 * i - 2] + 10 * n[4 * i - 1] + n[4 * i]
      Sums(n) ==
        <<>> \o [i \in 1..(Len(n) \div 4) |->
                   ((Limb(n, i) * k) % 10000)
                     + (IF 4 * i < Len(n) THEN (Limb(n, i + 1) * k) \div 10000 ELSE 0)]
      Carried(s) ==
        <<>> \o [i \in 1..Len(s) |->
                   (s[i] + (IF \A j \in (i + 1)..Len(s) : s[j] = 9999 THEN 0
                            ELSE IF s[CHOOSE j \in (i + 1)..Len(s) :
                                        s[j] # 9999 /\ \A l \in (i + 1)..(j - 1) : s[l] = 9999]
                                      >= 10000 THEN 1
                            ELSE 0)) % 10000]
      LimbDigits(r) ==
        <<>> \o [p \in 1..(4 * Len(r)) |-> (r[((p - 1) \div 4) + 1] \div (10 ^ (3 - ((p - 1) % 4)))) % 10]
  IN  LimbDigits(Carried(Sums([i \in 1..(8 - (Len(m) % 4)) |-> 0] \o m)))

\* Python's int(x) of a number: a float is cut at its decimal point.
NumberToInt(x) ==
  IF x.kind = "int" THEN Ok(x)
  ELSE IF x.kind = "nan" THEN Raise("ValueError", "cannot convert float NaN to integer")
  ELSE IF x.kind = "inf"
    THEN Raise("OverflowError", "cannot convert float infinity to integer")
  ELSE IF x.kind = "other" THEN Raise("ValueError", "invalid literal")
  ELSE IF x.e >= 0 THEN Ok(PyLong(x.sign, x.m \o [i \in 1..x.e |-> 0]))
  ELSE IF LeadExponent(x) < 0 THEN Ok(PyInt(0))
  ELSE Ok(PyLong(x.sign, SubSeq(x.m, 1, Len(x.m) + x.e)))

\* Python 2's int(s): surrounding whitespace is dropped, and so is whitespace
\* between the sign and the digits; an optional sign and decimal digits give
\* the number, anything else is a ValueError.
ParseNumber(s) ==
  LET text == LStrip(RStrip(s))
      signed == Len(text) > 0 /\ text[1] \in {"-", "+"}
      numeral == IF signed THEN LStrip(Tail(text)) ELSE text
  IN  IF IsDigits(numeral)
        THEN Ok(PyLong(IF signed /\ text[1] = "-" THEN 0 - 1 ELSE 1, Digits(numeral)))
      ELSE Raise("ValueError", "invalid literal")

\* x * 2^n for a float x >= 0, exactly: a division by 2 is a multiplication
\* by 5 and a step of the decimal point.  Up to 2^13 and down to 2^-5 it is
\* one multiplication, beyond that one half of n after the other.
RECURSIVE TimesPowerOfTwo(_, _)
TimesPowerOfTwo(x, n) ==
  IF x.m[1] = 0 \/ n = 0 THEN x
  ELSE IF n > 13 \/ n < 0 - 5
    THEN TimesPowerOfTwo(TimesPowerOfTwo(x, n \div 2), n - (n \div 2))
  ELSE PyFloat(1, MulSmall(x.m, IF n > 0 THEN 2 ^ n ELSE 5 ^ (0 - n)),
               x.e + (IF n > 0 THEN 0 ELSE n))

\* A power of two n within -971..1074, the exponents of a double, with
\* x * 2^n < 2^52 for a finite x > 0 unless n is -971, and no more than five
\* below the largest such n: 10^(LeadExponent(x) + 1) is above x, and
\* 3.321929 is above the logarithm of 10 to the base 2.
BinaryExponent(x) ==
  IF 51 - (((LeadExponent(x) + 1) * 3321929) \div 1000000) > 1074 THEN 1074
  ELSE IF 51 - (((LeadExponent(x) + 1) * 3321929) \div 1000000) < 0 - 971 THEN 0 - 971
  ELSE 51 - (((LeadExponent(x) + 1) * 3321929) \div 1000000)

\* x > 0, scaled by 2^n so far, doubled until 2^52 (4503599627370496) <= x
\* or n is 1074: the scaled x and the n it was scaled by.
RECURSIVE BinaryScale(_, _)
BinaryScale(x, n) ==
  IF n < 1074
       /\ MagnitudeLt(x, PyNumber("float", 1, <<4, 5, 0, 3, 5, 9, 9, 6, 2, 7, 3, 7, 0, 4, 9, 6>>, 0))
    THEN BinaryScale(TimesPowerOfTwo(x, 1), n + 1)
  ELSE [x |-> x, n |-> n]

\* m cut behind its first p digits and rounded by the digits cut off, a half
\* going to the even neighbour.
RoundAt(m, p) ==
  IF p >= Len(m) THEN m
  ELSE IF \/ m[p + 1] > 5
          \/ m[p + 1] = 5 /\ \E i \in (p + 2)..Len(m) : m[i] # 0
          \/ m[p + 1] = 5 /\ p > 0 /\ m[p] % 2 = 1
    THEN Successor(SubSeq(m, 1, p))
  ELSE SubSeq(m, 1, p)

\* The integer nearest to x >= 0.
RoundHalfEven(x) ==
  IF x.e >= 0 THEN x
  ELSE IF Len(x.m) + x.e < 0 THEN PyFloat(1, <<0>>, 0)
  ELSE PyFloat(1, <<0>> \o RoundAt(x.m, Len(x.m) + x.e), 0)

\* The double of sign and magnitude q * 2^-n, q being s.x rounded to an
\* integer: infinity when it is beyond the largest double, q having reached
\* 2^53 (9007199254740992) at the largest exponent.
RoundedDouble(sign, s) ==
  IF /\ s.n = 0 - 971
     /\ ~MagnitudeLt(RoundHalfEven(s.x),
                     PyNumber("float", 1, <<9, 0, 0, 7, 1, 9, 9, 2, 5, 4, 7, 4, 0, 9, 9, 2>>, 0))
    THEN PyInf(sign)
  ELSE [TimesPowerOfTwo(RoundHalfEven(s.x), 0 - s.n) EXCEPT !.sign = sign]

\* The double nearest to the decimal x: x itself when it is a whole number
\* below 10^15, infinity beyond the range of a double, zero below it.
NearestDouble(x) ==
  IF x.m[1] = 0 THEN x
  ELSE IF LeadExponent(x) > 308 THEN PyInf(x.sign)
  ELSE IF LeadExponent(x) < 0 - 324 THEN PyFloat(x.sign, <<0>>, 0)
  ELSE IF x.e >= 0 /\ LeadExponent(x) <= 14 THEN x
  ELSE RoundedDouble(x.sign,
                     BinaryScale(TimesPowerOfTwo([x EXCEPT !.sign = 1], BinaryExponent(x)),
                                 BinaryExponent(x)))

\* An optional sign and decimal digits, as the exponent of a float literal;
\* an exponent beyond 999999 is as good as 999999.
ParseSigned(s) ==
  LET signed == Len(s) > 0 /\ s[1] \in {"-", "+"}
      sign == IF signed /\ s[1] = "-" THEN 0 - 1 ELSE 1
      numeral == IF signed THEN Tail(s) ELSE s
      m == PyLong(1, Digits(numeral)).m
  IN  IF ~IsDigits(numeral) THEN Raise("ValueError", "invalid literal")
      ELSE IF Len(m) > 6 THEN Ok(sign * 999999)
      ELSE Ok(sign * DigitsToNat(Numeral(m)))

\* dot is the position of the first '.' of the numeral, 0 without one; ip and
\* fp are the digits before and after it, expo the outcome of reading the
\* exponent.
ParseFloatPoint(sign, numeral, dot, expo) ==
  LET ip == IF dot = 0 THEN numeral ELSE SubSeq(numeral, 1, dot - 1)
      fp == IF dot = 0 THEN <<>> ELSE SubSeq(numeral, dot + 1, Len(numeral))
  IN  IF expo.raised # "none" THEN expo
      ELSE IF Len(ip) + Len(fp) = 0 \/ ~IsDigits(<<"0">> \o ip \o fp)
        THEN Raise("ValueError", "invalid literal")
      ELSE Ok(NearestDouble(PyFloat(sign, Digits(ip \o fp), expo.val - Len(fp))))

\* text is the literal in lower case, without its sign; mark is the position
\* of its first 'e', 0 without one.
ParseFloatUnsigned(sign, text) ==
  LET mark == FirstIndex(text, "e")
  IN  IF text = <<"i", "n", "f">> \/ text = <<"i", "n", "f", "i", "n", "i", "t", "y">>
        THEN Ok(PyInf(sign))
      ELSE IF text = <<"n", "a", "n">> THEN Ok(PyNaN)
      ELSE ParseFloatPoint(sign,
                           IF mark = 0 THEN text ELSE SubSeq(text, 1, mark - 1),
                           FirstIndex(IF mark = 0 THEN text ELSE SubSeq(text, 1, mark - 1), "."),
                           IF mark = 0 THEN Ok(0)
                           ELSE ParseSigned(SubSeq(text, mark + 1, Len(text))))

\* Python's float(s): surrounding whitespace is dropped; an optional sign,
\* then 'inf', 'infinity' or 'nan' in any case, or digits with an optional
\* decimal point and an optional exponent, rounded to the nearest double.
ParseFloat(s) ==
  LET text == LStrip(RStrip(s))
      signed == Len(text) > 0 /\ text[1] \in {"-", "+"}
      Lowered(u) ==
        [i \in 1..Len(u) |->
           CASE u[i] = "A" -> "a" [] u[i] = "E" -> "e" [] u[i] = "F" -> "f" [] u[i] = "I" -> "i"
             [] u[i] = "N" -> "n" [] u[i] = "T" -> "t" [] u[i] = "Y" -> "y" [] OTHER -> u[i]]
  IN  ParseFloatUnsigned(IF signed /\ text[1] = "-" THEN 0 - 1 ELSE 1,
                         Lowered(IF signed THEN Tail(text) ELSE text))

\* Python 2's str(x) of a number: the digits of an int; a float rounded to
\* 12 significant digits.  Short(y) writes a float y > 0 of at most 12
\* digits: in exponent notation when its decimal exponent is below -4 or
\* above 10, and with '.0' behind a whole number.  Fixed(d, e) writes the
\* digits d of value d * 10^e in positional notation, Scientific(d, p) the
\* digits d with the decimal exponent p.
FloatToStr(x) ==
  LET Fixed(d, e) ==
        IF e >= 0 THEN d \o [i \in 1..e |-> "0"] \o <<".", "0">>
        ELSE IF Len(d) + e > 0
          THEN SubSeq(d, 1, Len(d) + e) \o <<".">> \o SubSeq(d, Len(d) + e + 1, Len(d))
        ELSE <<"0", ".">> \o [i \in 1..(0 - (Len(d) + e)) |-> "0"] \o d
      Scientific(d, p) ==
        <<d[1]>> \o (IF Len(d) > 1 THEN <<".">> \o Tail(d) ELSE <<>>)
          \o <<"e">> \o (IF p < 0 THEN <<"-">> ELSE <<"+">>)
          \o (IF p > 0 - 10 /\ p < 10 THEN <<"0">> ELSE <<>>)
          \o NatToStr(IF p < 0 THEN 0 - p ELSE p)
      Short(y) ==
        IF LeadExponent(y) < 0 - 4 \/ LeadExponent(y) > 10
          THEN Scientific(Numeral(y.m), LeadExponent(y))
        ELSE Fixed(Numeral(y.m), y.e)
  IN  IF x.kind = "int" THEN (IF x.sign < 0 THEN <<"-">> ELSE <<>>) \o Numeral(x.m)
      ELSE IF x.kind = "nan" THEN <<"n", "a", "n">>
      ELSE (IF x.sign < 0 THEN <<"-">> ELSE <<>>)
             \o (IF x.kind = "inf" THEN <<"i", "n", "f">>
                 ELSE IF x.m[1] = 0 THEN <<"0", ".", "0">>
                 ELSE Short(PyFloat(1, RoundAt(x.m, 12),
                                    IF Len(x.m) > 12 THEN LeadExponent(x) - 11 ELSE x.e)))

\* ------------------------------------------------------------- validators
signeddata_is_valid_timestamp(timestamp) ==
  IF timestamp = None THEN TRUE
  ELSE IF ~IsNumber(timestamp[1]) THEN FALSE
  ELSE TRUE

signeddata_is_valid_expirationtime(expirationtime) ==
  IF expirationtime = None THEN TRUE
  ELSE IF ~IsNumber(expirationtime[1]) THEN FALSE
  ELSE IF FloatLt(expirationtime[1], PyInt(0)) THEN FALSE
  ELSE TRUE

\* A sequence number is None or Some(t), t a tuple that should be
\* <<tag, counter>>: tag a string, counter a Python number.  (Every sequence
\* number of the model is a tuple and every tag a string, so the type tests
\* of lines 99 and 105 never fail.)
signeddata_is_valid_sequencenumber(sequencenumber) ==
  IF sequencenumber = None THEN TRUE
  ELSE IF Len(sequencenumber[1]) # 2 THEN FALSE
  ELSE IF \/ Contains(sequencenumber[1][1], "!")
          \/ Contains(sequencenumber[1][1], ":")
          \/ Contains(sequencenumber[1][1], "\n") THEN FALSE
  ELSE IF sequencenumber[1][2].kind # "int" THEN FALSE
  ELSE TRUE

signeddata_is_valid_destination(destination) ==
  IF destination = None THEN TRUE
  ELSE IF ~Contains(destination[1], "!") /\ ~Contains(destination[1], "\n") THEN TRUE
  ELSE FALSE

\* ------------------------------------------------------------ field codecs
signeddata_string_to_destination(destination) ==
  IF destination = sNone THEN None ELSE Some(destination)

\* str(destination): str(None) is 'None', str of a string is the string.
signeddata_destination_to_string(destination) ==
  IF destination = None THEN sNone ELSE destination[1]

\* float(raw) as an optional value, or the ValueError it raised.
OptionalNumber(f) == IF f.raised = "none" THEN Ok(Some(f.val)) ELSE f

signeddata_string_to_timestamp(rawtimestamp) ==
  IF rawtimestamp = sNone THEN Ok(None)
  ELSE OptionalNumber(ParseFloat(rawtimestamp))

signeddata_timestamp_to_string(timestamp) ==
  IF timestamp = None THEN sNone ELSE FloatToStr(timestamp[1])

signeddata_string_to_expiration(rawexpiration) ==
  IF rawexpiration = sNone THEN Ok(None)
  ELSE OptionalNumber(ParseFloat(rawexpiration))

signeddata_expiration_to_string(expiration) ==
  IF expiration = None THEN sNone ELSE FloatToStr(expiration[1])


\* The pair (tag, int(counter)) or the ValueError int() raised.
SequencePair(tag, n) == IF n.raised = "none" THEN Ok(Some(<<tag, n.val>>)) ELSE n

\* parts is sequencenumberstr.split(':').
signeddata_string_to_sequencenumber(sequencenumberstr) ==
  LET parts == rsplit(sequencenumberstr, ":", Len(sequencenumberstr))
  IN  IF sequencenumberstr = sNone THEN Ok(None)
      ELSE IF Len(parts) # 2
        THEN Raise("ValueError", "Invalid sequence number string (does not contain 1 ':')")
      ELSE IF Contains(sequencenumberstr, "!")
        THEN Raise("ValueError", "Invalid sequence number data: '!' not allowed")
      ELSE SequencePair(parts[1], ParseNumber(parts[2]))

\* The string, or the error raised: the items at [0] and [1] are looked at
\* before the length is.
signeddata_sequencenumber_to_string(sequencenumber) ==
  IF sequencenumber = None THEN Ok(sNone)
  ELSE IF Len(sequencenumber[1]) < 1 THEN Raise("IndexError", "tuple index out of range")
  ELSE IF Len(sequencenumber[1]) < 2 THEN Raise("IndexError", "tuple index out of range")
  ELSE IF sequencenumber[1][2].kind # "int"
    THEN Raise("ValueError", "Invalid sequence number count type")
  ELSE IF Len(sequencenumber[1]) # 2 THEN Raise("ValueError", "Invalid sequence number")
  ELSE Ok(sequencenumber[1][1] \o <<":">> \o FloatToStr(sequencenumber[1][2]))

\* ----------------------------------------------------------- signed fields
\* rsa.r2py is imported, not part of this file.  A public key is a number;
\* private key k (Some(k)) is the one that pairs with public key k.
Keys == {1, 2}

n1 == <<"n", "1">>
n2 == <<"n", "2">>

OptTimes == {None} \cup {Some(PyInt(t)) : t \in 0..MaxTime}
Sequences0 ==
  {None} \cup {Some(<<tag, PyInt(n)>>) : tag \in {<<"a">>, <<"b">>}, n \in 0..MaxCounter}

\* The sequence number (tag, n) and the time t, as Python ints.
SeqNo(tag, n) == Some(<<<<tag>>, PyInt(n)>>)
Time(t) == Some(PyInt(t))

\* The arguments of one signeddata_signdata call.
Base ==
  [data |-> <<"d">>, privatekey |-> Some(1), publickey |-> 1, timestamp |-> None,
   expiration |-> None, sequenceno |-> None, destination |-> None]

\* Valid argument tuples, varied one group of fields at a time.
StampedFields ==
  {[Base EXCEPT !.timestamp = t, !.sequenceno = q] :
     t \in OptTimes, q \in {None, SeqNo("a", 0), SeqNo("a", 1), SeqNo("b", 0)}}
AddressedFields ==
  {[Base EXCEPT !.timestamp = Time(1), !.destination = Some(d)] :
     d \in {n1, n2, <<"n", "1", ":", "n", "2">>, sNone}}
\* Messages signed under each pair of keys, and messages that expire.
KeyedFields ==
  {[Base EXCEPT !.timestamp = Time(1), !.privatekey = Some(k), !.publickey = p] :
     k \in Keys, p \in Keys}
    \cup {[Base EXCEPT !.timestamp = Time(1), !.expiration = Time(e)] : e \in 0..MaxTime}
\* The arguments of the texts that reach the receiver.
ReceiverFields ==
  {[Base EXCEPT !.timestamp = t, !.sequenceno = q] :
     t \in {Time(t) : t \in 0..(MaxTime + 1)}, q \in {None, SeqNo("a", 0), SeqNo("a", 1)}}
    \cup {[Base EXCEPT !.timestamp = Time(t), !.sequenceno = SeqNo("b", 0)] : t \in 1..MaxTime}
    \cup {Base, [Base EXCEPT !.timestamp = Time(MaxTime), !.destination = Some(n1)]}

\* The text that is hashed: data \n!pubkey!timestamp!expire!sequence!dest
signeddata_totaldata(data, pubkeystr, timestampstr, expirationstr, sequencestr, destinationstr) ==
  data \o <<"\n", "!">> \o pubkeystr \o <<"!">> \o timestampstr \o <<"!">> \o expirationstr
       \o <<"!">> \o sequencestr \o <<"!">> \o destinationstr

\* ------------------------------------------------------------------- sha
\* The characters of codes 9 to 13 and of codes 32 to 126 (code 96, the grave
\* accent, cannot be written in a string here), and the code of one of them.
Ord(c) ==
  LET Chars == <<"\t", "\n", "", "\f", "\r", " ", "!", "\"", "#", "$", "%", "&", "'", "(", ")", "*", "+", ",", "-", ".", "/", "0", "1", "2", "3", "4", "5", "6", "7", "8", "9", ":", ";", "<", "=", ">", "?", "@", "A", "B", "C", "D", "E", "F", "G", "H", "I", "J", "K", "L", "M", "N", "O", "P", "Q", "R", "S", "T", "U", "V", "W", "X", "Y", "Z", "[", "\\", "]", "^", "_", "grave", "a", "b", "c", "d", "e", "f", "g", "h", "i", "j", "k", "l", "m", "n", "o", "p", "q", "r", "s", "t", "u", "v", "w", "x", "y", "z", "{", "|", "}", "~">>
  IN  (CHOOSE i \in 1..100 : Chars[i] = c) + (IF \E i \in 1..5 : Chars[i] = c THEN 8 ELSE 26)

\* Bitwise and of two numbers below 16 (at [x + 1][y + 1]) and of two
\* numbers below 65536; exclusive or from it.  A 32-bit word is the pair of
\* its 16-bit halves: Word carries from the low half and drops the overflow,
\* Rotl rotates to the left by n < 16 bits.
And4 == <<>> \o [x \in 1..16 |-> <<>> \o [y \in 1..16 |-> ((((x - 1) \div 8) % 2) * (((y - 1) \div 8) % 2)) * 8 + ((((x - 1) \div 4) % 2) * (((y - 1) \div 4) % 2)) * 4 + ((((x - 1) \div 2) % 2) * (((y - 1) \div 2) % 2)) * 2 + (((x - 1) % 2) * ((y - 1) % 2))]]
And16(a, b) ==
  LET Nibble(t, k) == t[((a \div k) % 16) + 1][((b \div k) % 16) + 1] * k
      Nibbles(t) == Nibble(t, 4096) + Nibble(t, 256) + Nibble(t, 16) + Nibble(t, 1)
  IN  Nibbles(And4)
WordXor(x, y) ==
  LET Xor16(a, b) == a + b - (2 * And16(a, b))
  IN  <<Xor16(x[1], y[1]), Xor16(x[2], y[2])>>

Word(hi, lo) == <<(hi + (lo \div 65536)) % 65536, lo % 65536>>
Rotl(x, n) == <<((x[1] * (2 ^ n)) % 65536) + (x[2] \div (2 ^ (16 - n))), ((x[2] * (2 ^ n)) % 65536) + (x[1] \div (2 ^ (16 - n)))>>

\* f(t; b, c, d) of round t: (b and c) or (not b and d) in rounds 0 to 19,
\* the majority in rounds 40 to 59, b xor c xor d in the others.  In half i,
\* p is b and c, x is b xor c, q is d and (not b, or x).
ShaF(t, b, c, d) ==
  LET Mixed(i, x, p, q) == IF t \in 20..39 \/ t >= 60 THEN x + d[i] - (2 * q) ELSE p + q
      Second(i, x, p) == Mixed(i, x, p, And16(IF t < 20 THEN 65535 - b[i] ELSE x, d[i]))
      Half(i, p) == Second(i, b[i] + c[i] - (2 * p), p)
  IN  <<Half(1, And16(b[1], c[1])), Half(2, And16(b[2], c[2]))>>

\* The rounds of the compression from s.t up to n: s holds a, b, c, d, e and
\* w is the schedule.  In round s.t, x is the word of the schedule, f is
\* f(t; b, c, d), k is K(t), r is a rotated by 5.
RECURSIVE ShaRounds(_, _, _)
ShaRounds(s, w, n) ==
  LET ShaStep(x, f, k, r) ==
        [t |-> s.t + 1,
         a |-> Word(r[1] + f[1] + s.e[1] + k[1] + x[1], r[2] + f[2] + s.e[2] + k[2] + x[2]),
         b |-> s.a, c |-> Rotl(<<s.b[2], s.b[1]>>, 14), d |-> s.c, e |-> s.d]
  IN  IF s.t >= n THEN s
      ELSE IF n - s.t > 1 THEN ShaRounds(ShaRounds(s, w, (s.t + n) \div 2), w, n)
      ELSE ShaStep(w[s.t + 1], ShaF(s.t, s.b, s.c, s.d),
                   IF s.t < 20 THEN <<23170, 31129>> ELSE IF s.t < 40 THEN <<28377, 60321>>
                   ELSE IF s.t < 60 THEN <<36635, 48348>> ELSE <<51810, 49622>>,
                   Rotl(s.a, 5))

\* The message schedule, extended to n words: each new word is the exclusive
\* or of the words 3, 8, 14 and 16 places before it, rotated by 1.
RECURSIVE ShaSchedule(_, _)
ShaSchedule(w, n) ==
  IF Len(w) >= n THEN w
  ELSE IF n - Len(w) > 1 THEN ShaSchedule(ShaSchedule(w, (Len(w) + n) \div 2), n)
  ELSE Append(w, Rotl(WordXor(WordXor(w[Len(w) - 2], w[Len(w) - 7]),
                              WordXor(w[Len(w) - 13], w[Len(w) - 15])), 1))

\* The chaining value h after the block whose schedule is w.
ShaCompress(h, w) ==
  LET Sum(x, y) == Word(x[1] + y[1], x[2] + y[2])
      Added(s) == <<Sum(h[1], s.a), Sum(h[2], s.b), Sum(h[3], s.c), Sum(h[4], s.d), Sum(h[5], s.e)>>
  IN  Added(ShaRounds([t |-> 0, a |-> h[1], b |-> h[2], c |-> h[3], d |-> h[4], e |-> h[5]], w, 80))

\* The chaining value after the blocks from k (counted from 0) of the padded
\* message p; a block is sixteen words.
RECURSIVE ShaBlocks(_, _, _)
ShaBlocks(h, p, k) ==
  LET At(j) == <<(p[j - 3] * 256) + p[j - 2], (p[j - 1] * 256) + p[j]>>
  IN  IF 64 * k >= Len(p) THEN h
      ELSE ShaBlocks(ShaCompress(h, ShaSchedule(<<>> \o [i \in 1..16 |-> At((64 * k) + (4 * i))], 80)),
                     p, k + 1)

\* fastsha.new(data).digest(): the SHA-1 digest of the text, twenty byte
\* values.  The text is padded with 0x80, zeros and its length in bits as
\* eight bytes.
fastsha_digest(data) ==
  LET Bytes(h) == <<>> \o [i \in 1..20 |-> IF i % 2 = 1 THEN h[(i + 3) \div 4][(((i - 1) % 4) \div 2) + 1] \div 256 ELSE h[(i + 3) \div 4][(((i - 1) % 4) \div 2) + 1] % 256]
      Padded(b) == b \o <<128>> \o [i \in 1..((119 - Len(b)) % 64) |-> 0] \o <<0, 0, 0, 0, (Len(b) \div 2097152) % 256, (Len(b) \div 8192) % 256, (Len(b) \div 32) % 256, (Len(b) * 8) % 256>>
  IN  Bytes(ShaBlocks(<<<<26437, 8961>>, <<61389, 43913>>, <<39098, 56574>>, <<4146, 21622>>, <<50130, 57840>>>>,
                      Padded(<<>> \o [i \in 1..Len(data) |-> Ord(data[i])]), 0))

\* Field strings of the envelopes that are not made by signeddata_signdata:
\* public key, timestamp, expiration and sequence number; and the text that
\* is hashed for them.
ForgedFields ==
  {<<<<"k">>, sNone, sNone, sNone>>, <<<<"1">>, <<"x">>, sNone, sNone>>,
   <<<<"1">>, sNone, <<"x">>, sNone>>, <<<<"1">>, sNone, sNone, <<"a">>>>,
   <<<<"1">>, sNone, sNone, <<"a", ":", "x">>>>}
Forged(x) == signeddata_totaldata(<<"d">>, x[1], x[2], x[3], x[4], sNone)

\* The digests of the texts that most calls of the model hash, computed
\* once: the texts signeddata_signdata hashes for the arguments f, and the
\* forged ones.  A digest is kept with its text.
Digest(text) == <<text, fastsha_digest(text)>>
Digests ==
  {Digest(signeddata_totaldata(f.data, NatToStr(f.publickey),
                               signeddata_timestamp_to_string(f.timestamp),
                               signeddata_expiration_to_string(f.expiration),
                               signeddata_sequencenumber_to_string(f.sequenceno).val,
                               signeddata_destination_to_string(f.destination))) :
     f \in StampedFields \cup AddressedFields \cup KeyedFields \cup ReceiverFields}
    \cup {Digest(Forged(x)) : x \in ForgedFields}

\* known holds the digest of data computed before, if there is one.
Lookup(data, known) ==
  IF known = {} THEN Digest(data)[2] ELSE (CHOOSE d \in known : TRUE)[2]

sha_hash(data) == Lookup(data, {d \in Digests : d[1] = data})

\* ------------------------------------------------------------------- rsa
\* rsa.r2py writes a signature as text: here 's', the key, '#', and the
\* signed bytes in hexadecimal.
HexChars == <<"0", "1", "2", "3", "4", "5", "6", "7", "8", "9", "a", "b", "c", "d", "e", "f">>
Hex(b) == <<>> \o [i \in 1..(2 * Len(b)) |-> HexChars[(IF i % 2 = 1 THEN b[(i + 1) \div 2] \div 16 ELSE b[i \div 2] % 16) + 1]]
Unhex(s) ==
  LET Digit(c) == (CHOOSE d \in 1..16 : HexChars[d] = c) - 1
  IN  <<>> \o [i \in 1..(Len(s) \div 2) |-> (16 * Digit(s[(2 * i) - 1])) + Digit(s[2 * i])]

rsa_string_to_publickey(mystr) ==
  IF IsDigits(mystr) THEN Ok(DigitsToNat(mystr))
  ELSE Raise("ValueError", "Invalid public key string")


\* Recovers the digest under the matching key, some other bytes under any
\* other key, and fails with the primitive's TypeError on a string that is
\* no signature.  parts is the signature cut at '#'.
rsa_verify(signature, publickey) ==
  LET parts == rsplit(signature, "#", Len(signature))
      IsHex(s) == Len(s) % 2 = 0 /\ \A i \in 1..Len(s) : \E d \in 1..16 : HexChars[d] = s[i]
  IN  IF ~(/\ Len(parts) = 2
           /\ Len(parts[1]) >= 2
           /\ parts[1][1] = "s"
           /\ IsDigits(Tail(parts[1]))
           /\ IsHex(parts[2]))
        THEN Raise("TypeError", "RSA")
      ELSE IF DigitsToNat(Tail(parts[1])) = publickey THEN Ok(Unhex(parts[2]))
      ELSE Ok(<<0>>)

\* ---------------------------------------------------------------- signing
\* rsa_sign(sha_hash(data), privatekey): the signature names the signing key
\* and carries the digest.
signeddata_create_signature(data, privatekey, publickey) ==
  IF privatekey = None THEN Raise("ValueError", "Invalid Private Key")
  ELSE IF publickey \notin Keys THEN Raise("ValueError", "Invalid Public Key")
  ELSE Ok(<<"s">> \o NatToStr(privatekey[1]) \o <<"#">> \o Hex(sha_hash(data)))

\* totaldata + "!" + signature, or the error of signeddata_create_signature.
signeddata_signed(totaldata, signature) ==
  IF signature.raised # "none" THEN signature
  ELSE Ok(totaldata \o <<"!">> \o signature.val)

signeddata_sign_totaldata(totaldata, privatekey, publickey) ==
  signeddata_signed(totaldata, signeddata_create_signature(totaldata, privatekey, publickey))

\* Lines 147-158 on the field strings; sequencestr is the outcome of
\* signeddata_sequencenumber_to_string.
signeddata_sign_fields(data, privatekey, publickey, timestampstr, expirationstr, sequencestr, destinationstr) ==
  IF sequencestr.raised # "none" THEN sequencestr
  ELSE signeddata_sign_totaldata(
         signeddata_totaldata(data, NatToStr(publickey), timestampstr,
                              expirationstr, sequencestr.val, destinationstr),
         privatekey, publickey)

\* Mutant: the destination is validated before the other fields.
signdata_destination_first(data, privatekey, publickey, timestamp, expiration, sequenceno, destination) ==
  IF ~signeddata_is_valid_destination(destination)
    THEN Raise("ValueError", "Invalid Destination")
  ELSE IF ~signeddata_is_valid_timestamp(timestamp) THEN Raise("ValueError", "Invalid Timestamp")
  ELSE IF ~signeddata_is_valid_expirationtime(expiration)
    THEN Raise("ValueError", "Invalid Expiration Time")
  ELSE IF ~signeddata_is_valid_sequencenumber(sequenceno)
    THEN Raise("ValueError", "Invalid Sequence Number")
  ELSE signeddata_sign_fields(data, privatekey, publickey,
                              signeddata_timestamp_to_string(timestamp),
                              signeddata_expiration_to_string(expiration),
                              signeddata_sequencenumber_to_string(sequenceno),
                              signeddata_destination_to_string(destination))

signeddata_signdata(data, privatekey, publickey, timestamp, expiration, sequenceno, destination) ==
  IF ~signeddata_is_valid_timestamp(timestamp) THEN Raise("ValueError", "Invalid Timestamp")
  ELSE IF ~signeddata_is_valid_expirationtime(expiration)
    THEN Raise("ValueError", "Invalid Expiration Time")
  ELSE IF ~signeddata_is_valid_sequencenumber(sequenceno)
    THEN Raise("ValueError", "Invalid Sequence Number")
  ELSE IF ~signeddata_is_valid_destination(destination)
    THEN Raise("ValueError", "Invalid Destination")
  ELSE signeddata_sign_fields(data, privatekey, publickey,
                              signeddata_timestamp_to_string(timestamp),
                              signeddata_expiration_to_string(expiration),
                              signeddata_sequencenumber_to_string(sequenceno),
                              signeddata_destination_to_string(destination))

\* return [original data, signature]
signeddata_split_signature(data) == rsplit(data, "\n", 1)

\* ----------------------------------------------------------- verification
\* Does the hash recovered from the signature match the signed data?
signeddata_issignedcorrectly_hash(signedhash, thesigneddata) ==
  IF signedhash.raised = "TypeError"
    THEN IF signedhash.val # "RSA" THEN signedhash ELSE Ok(FALSE)
  ELSE IF signedhash.raised = "OverflowError" THEN Ok(FALSE)
  ELSE IF signedhash.raised # "none" THEN signedhash
  ELSE IF signedhash.val = sha_hash(thesigneddata) THEN Ok(TRUE)
  ELSE Ok(FALSE)

\* embedded is rsa_string_to_publickey(rawpublickey).
signeddata_issignedcorrectly_key(thesigneddata, signature, embedded, publickey) ==
  IF embedded.raised # "none" THEN embedded
  ELSE IF publickey # None /\ embedded.val # publickey[1] THEN Ok(FALSE)
  ELSE signeddata_issignedcorrectly_hash(rsa_verify(signature, embedded.val), thesigneddata)

\* checks the signature.  If the public key is specified it must match that
\* in the text.  publickey is None or Some(key); outer is
\* data.rsplit('!', 1), the signed data and the signature, and inner is
\* thesigneddata.rsplit('!', 5).
signeddata_issignedcorrectly(data, publickey) ==
  LET outer == rsplit(data, "!", 1)
      inner == rsplit(outer[1], "!", 5)
  IN  IF Len(outer) # 2 THEN Ok(FALSE)
      ELSE IF Len(inner) # 6 THEN Ok(FALSE)
      ELSE signeddata_issignedcorrectly_key(outer[1], outer[2],
                                            rsa_string_to_publickey(inner[2]), publickey)

\* ------------------------------------------------------------------ clock
\* time.r2py: a clock record is [synced, ntp, now, reads, updates].
\* time_gettime fails with TimeError until the clock has been synchronized;
\* time_updatetime synchronizes it when a time server answers and fails with
\* TimeError otherwise.  The time read is the float c.now.  reads and updates
\* count the calls this module made of the two.
time_gettime(c) ==
  IF c.synced
    THEN [raised |-> "none", val |-> PyFloat(1, PyInt(c.now).m, 0), clk |-> [c EXCEPT !.reads = @ + 1]]
  ELSE [raised |-> "TimeError", val |-> PyNaN, clk |-> [c EXCEPT !.reads = @ + 1]]

time_updatetime(c) ==
  IF c.ntp THEN [raised |-> "none", clk |-> [c EXCEPT !.synced = TRUE, !.updates = @ + 1]]
  ELSE [raised |-> "TimeError", clk |-> [c EXCEPT !.updates = @ + 1]]

\* Mutant: an expiration equal to the current time still counts as current.
iscurrent_compare_inclusive(expiretime, currenttime, c) ==
  IF currenttime.raised # "none" THEN [raised |-> "TimeError", val |-> FALSE, clk |-> c]
  ELSE IF ~FloatLt(expiretime[1], currenttime.val)
    THEN [raised |-> "none", val |-> TRUE, clk |-> c]
  ELSE [raised |-> "none", val |-> FALSE, clk |-> c]

\* The comparison that ends signeddata_iscurrent, on the time that was read.
signeddata_iscurrent_compare(expiretime, currenttime, c) ==
  IF currenttime.raised # "none" THEN [raised |-> "TimeError", val |-> FALSE, clk |-> c]
  ELSE IF FloatGt(expiretime[1], currenttime.val) THEN [raised |-> "none", val |-> TRUE, clk |-> c]
  ELSE [raised |-> "none", val |-> FALSE, clk |-> c]

\* Mutant: a failed resynchronization is attempted once more.
iscurrent_retry_twice(c) ==
  IF time_updatetime(c).raised = "none" THEN time_updatetime(c)
  ELSE time_updatetime(time_updatetime(c).clk)

\* Line 297, the first statement of the except branch of
\* signeddata_iscurrent: time_updatetime(34612), once.
signeddata_iscurrent_retry(c) == time_updatetime(c)

\* ---------------------------------------------------- sequence transition
\* Mutant: within a sequence any larger number is taken for the next one.
has_good_sequence_transition_gap(oldsequence, newsequence) ==
  IF newsequence = None THEN Ok(TRUE)
  ELSE IF Len(newsequence[1]) # 2 THEN Raise("ValueError", "unpack")
  ELSE IF NumberToInt(newsequence[1][2]).raised # "none" THEN NumberToInt(newsequence[1][2])
  ELSE IF oldsequence = None
    THEN IF NumberToInt(newsequence[1][2]).val = PyInt(0) THEN Ok(TRUE) ELSE Ok(FALSE)
  ELSE IF Len(oldsequence[1]) # 2 THEN Raise("ValueError", "unpack")
  ELSE IF NumberToInt(oldsequence[1][2]).raised # "none" THEN NumberToInt(oldsequence[1][2])
  ELSE IF oldsequence[1][1] = newsequence[1][1]
    THEN IF FloatLt(NumberToInt(oldsequence[1][2]).val, NumberToInt(newsequence[1][2]).val)
           THEN Ok(TRUE) ELSE Ok(FALSE)
  ELSE IF NumberToInt(newsequence[1][2]).val = PyInt(0) THEN Ok(TRUE)
  ELSE Ok(FALSE)

\* Mutant: without a prior sequence any number starts one.
has_good_sequence_transition_any_start(oldsequence, newsequence) ==
  IF newsequence = None THEN Ok(TRUE)
  ELSE IF Len(newsequence[1]) # 2 THEN Raise("ValueError", "unpack")
  ELSE IF NumberToInt(newsequence[1][2]).raised # "none" THEN NumberToInt(newsequence[1][2])
  ELSE IF oldsequence = None THEN Ok(TRUE)
  ELSE IF Len(oldsequence[1]) # 2 THEN Raise("ValueError", "unpack")
  ELSE IF NumberToInt(oldsequence[1][2]).raised # "none" THEN NumberToInt(oldsequence[1][2])
  ELSE IF oldsequence[1][1] = newsequence[1][1]
    THEN IF Increment(NumberToInt(oldsequence[1][2]).val) = NumberToInt(newsequence[1][2]).val
           THEN Ok(TRUE) ELSE Ok(FALSE)
  ELSE IF NumberToInt(newsequence[1][2]).val = PyInt(0) THEN Ok(TRUE)
  ELSE Ok(FALSE)

\* A sequence number is None or Some(<<name, number>>).  Returns the boolean,
\* or the error of unpacking a tuple that is no pair or of int() on a number
\* that has no integer value.
signeddata_has_good_sequence_transition(oldsequence, newsequence) ==
  IF newsequence = None THEN Ok(TRUE)
  ELSE IF Len(newsequence[1]) # 2 THEN Raise("ValueError", "unpack")
  ELSE IF NumberToInt(newsequence[1][2]).raised # "none" THEN NumberToInt(newsequence[1][2])
  ELSE IF oldsequence = None
    THEN IF NumberToInt(newsequence[1][2]).val = PyInt(0) THEN Ok(TRUE) ELSE Ok(FALSE)
  ELSE IF Len(oldsequence[1]) # 2 THEN Raise("ValueError", "unpack")
  ELSE IF NumberToInt(oldsequence[1][2]).raised # "none" THEN NumberToInt(oldsequence[1][2])
  ELSE IF oldsequence[1][1] = newsequence[1][1]
    THEN IF Increment(NumberToInt(oldsequence[1][2]).val) = NumberToInt(newsequence[1][2]).val
           THEN Ok(TRUE) ELSE Ok(FALSE)
  ELSE IF NumberToInt(newsequence[1][2]).val = PyInt(0) THEN Ok(TRUE)
  ELSE Ok(FALSE)

\* ------------------------------------------------------------ destination
\* Mutant: the identity only has to occur somewhere in the destination.
destined_for_me_substring(destination, identity) ==
  IF destination = None THEN TRUE
  ELSE IF identity = None THEN FALSE
  ELSE IF \E i \in 1..(Len(destination[1]) - Len(identity[1]) + 1) :
            SubSeq(destination[1], i, i + Len(identity[1]) - 1) = identity[1] THEN TRUE
  ELSE FALSE

\* identity is the entry signeddata_identity['me']: None while none is set.
signeddata_destined_for_me(destination, identity) ==
  IF destination = None THEN TRUE
  ELSE IF identity = None THEN FALSE
  ELSE IF \E list \in {rsplit(destination[1], ":", Len(destination[1]))} :
            \E i \in 1..Len(list) : list[i] = identity[1] THEN TRUE
  ELSE FALSE

\* --------------------------------------------------------------- decoding
\* The tuple signeddata_split returns, or the ValueError of the first field
\* that does not parse.
signeddata_split_fields(data, pubkey, timestamp, expiration, sequenceno, destination) ==
  IF pubkey.raised # "none" THEN pubkey
  ELSE IF timestamp.raised # "none" THEN timestamp
  ELSE IF expiration.raised # "none" THEN expiration
  ELSE IF sequenceno.raised # "none" THEN sequenceno
  ELSE Ok(<<data, pubkey.val, timestamp.val, expiration.val, sequenceno.val, destination>>)

\* Returns <<data, pubkey, timestamp, expiration, sequenceno, destination>>;
\* parts is data.rsplit('!', 6).
signeddata_split(data) ==
  LET parts == rsplit(data, "!", 6)
  IN  IF Len(parts) # 7 THEN Raise("ValueError", "need more than values to unpack")
      ELSE signeddata_split_fields(SubSeq(parts[1], 1, Len(parts[1]) - 1),
                                   rsa_string_to_publickey(parts[2]),
                                   signeddata_string_to_timestamp(parts[3]),
                                   signeddata_string_to_expiration(parts[4]),
                                   signeddata_string_to_sequencenumber(parts[5]),
                                   signeddata_string_to_destination(parts[6]))

\* ----------------------------------------------------------------- comments
signeddata_expiration_comment(current) ==
  IF current.raised = "TimeError" THEN <<"Cannot check expiration">>
  ELSE IF ~current.val THEN <<"Expired signature">>
  ELSE <<>>

\* Lines 388-392: signed is the boolean signeddata_issignedcorrectly gave.
signeddata_key_comments(pubkey, signed, publickey) ==
  (IF publickey # None /\ publickey[1] # pubkey THEN <<"Different public key">> ELSE <<>>)
    \o (IF ~signed THEN <<"Bad signature">> ELSE <<>>)

\* Lines 401-402.
signeddata_destination_comment(destination, identity) ==
  IF destination # None /\ ~signeddata_destined_for_me(destination, identity)
    THEN <<"Not destined for this node">>
  ELSE <<>>

signeddata_warning_comments == {"Timestamps match", "Cannot check expiration"}

signeddata_fatal_comments ==
  {"Malformed signed data", "Different public key", "Bad signature", "Expired signature",
   "Public keys do not match", "Invalid sequence transition", "Timestamps out of order",
   "Not destined for this node"}

signeddata_all_comments == signeddata_warning_comments \cup signeddata_fatal_comments

\* ------------------------------------------------------------------- trust
\* A verdict is "True", "False" or "None", for Python's True (trusted), False
\* (untrusted) and None (indeterminate).

\* Mutant: equal timestamps pass without a comment.
timestamp_comments_equal_passes(oldtime, newtime) ==
  IF (newtime = None /\ oldtime # None) \/ oldtime = None \/ FloatGt(oldtime[1], newtime[1])
    THEN Ok(<<"Timestamps out of order">>)
  ELSE Ok(<<>>)

\* Mutant: equal timestamps count as out of order.
timestamp_comments_equal_reversed(oldtime, newtime) ==
  IF (newtime = None /\ oldtime # None) \/ oldtime = None \/ ~FloatLt(oldtime[1], newtime[1])
    THEN Ok(<<"Timestamps out of order">>)
  ELSE Ok(<<>>)

\* The timestamp check of signeddata_shouldtrust: the comments it appends,
\* or the AssertionError of its last branch.
signeddata_timestamp_comments(oldtime, newtime) ==
  IF (newtime = None /\ oldtime # None) \/ oldtime = None \/ FloatGt(oldtime[1], newtime[1])
    THEN Ok(<<"Timestamps out of order">>)
  ELSE IF oldtime # None /\ newtime # None /\ FloatEq(oldtime[1], newtime[1])
    THEN Ok(<<"Timestamps match">>)
  ELSE IF (newtime = None /\ oldtime = None) \/ FloatLt(oldtime[1], newtime[1]) THEN Ok(<<>>)
  ELSE Raise("AssertionError", "")

\* The sequence check of signeddata_shouldtrust: the comments it appends, or
\* the error signeddata_has_good_sequence_transition raised.
signeddata_sequence_comments(oldsequence, newsequence) ==
  IF signeddata_has_good_sequence_transition(oldsequence, newsequence).raised # "none"
    THEN signeddata_has_good_sequence_transition(oldsequence, newsequence)
  ELSE IF ~signeddata_has_good_sequence_transition(oldsequence, newsequence).val
    THEN Ok(<<"Invalid sequence transition">>)
  ELSE Ok(<<>>)

\* The classification loop of signeddata_shouldtrust over the comments from
\* position i on.
RECURSIVE signeddata_classify(_, _)
signeddata_classify(returned_comments, i) ==
  IF i > Len(returned_comments) THEN Ok(<<"None", returned_comments>>)
  ELSE IF returned_comments[i] \in signeddata_fatal_comments
    THEN Ok(<<"False", returned_comments>>)
  ELSE IF returned_comments[i] \notin signeddata_warning_comments
    THEN Raise("AssertionError", "")
  ELSE signeddata_classify(returned_comments, i + 1)

\* Mutant: the loop decides on the first comment alone.
verdict_first_comment_only(returned_comments) ==
  IF returned_comments = <<>> THEN Ok(<<"True", <<>>>>)
  ELSE IF returned_comments[1] \in signeddata_fatal_comments
    THEN Ok(<<"False", returned_comments>>)
  ELSE Ok(<<"None", returned_comments>>)

signeddata_verdict(returned_comments) ==
  IF returned_comments = <<>> THEN Ok(<<"True", <<>>>>)
  ELSE signeddata_classify(returned_comments, 1)

\* The outcome of signeddata_shouldtrust: [raised, val, clk], val being
\* <<verdict, comments>>, from the outcome v of the last statement: the
\* verdict, or the error that escaped.
Evaluated(v, c) ==
  [raised |-> v.raised, val |-> IF v.raised = "none" THEN v.val ELSE <<>>, clk |-> c]

\* Decodes the old message: the full previous request, or only its metadata
\* and signature, parts being oldsigneddata.rsplit('!', 5).  Returns <<junk,
\* pubkey, timestamp, expiration, sequenceno, destination>> or the ValueError
\* raised.
signeddata_split_old(oldsigneddata, oldsigneddata_is_fullrequest) ==
  LET parts == rsplit(oldsigneddata, "!", 5)
  IN  IF oldsigneddata_is_fullrequest THEN signeddata_split(oldsigneddata)
      ELSE IF Len(parts) # 6 THEN Raise("ValueError", "need more than values to unpack")
      ELSE signeddata_split_fields(<<>>,
                                   rsa_string_to_publickey(SubSeq(parts[1], 2, Len(parts[1]))),
                                   signeddata_string_to_timestamp(parts[2]),
                                   signeddata_string_to_expiration(parts[3]),
                                   signeddata_string_to_sequencenumber(parts[4]),
                                   signeddata_string_to_destination(parts[5]))

\* Lines 461-487: the sequence check, the timestamp check and the
\* classification, on the comments of both signeddata_getcomments calls.
\* sequence and stamps are the outcomes of the two checks.
signeddata_shouldtrust_compare(returned_comments, sequence, stamps, c) ==
  IF sequence.raised # "none" THEN Evaluated(sequence, c)
  ELSE IF stamps.raised # "none" THEN Evaluated(stamps, c)
  ELSE Evaluated(signeddata_verdict(returned_comments \o sequence.val \o stamps.val), c)

\* Mutant: without an old message the sequence number is still checked, as
\* the start of a sequence.
shouldtrust_alone_checks_start(returned_comments, newsequence, c) ==
  Evaluated(signeddata_verdict(returned_comments
                                 \o signeddata_sequence_comments(None, newsequence).val),
            c)

\* Lines 448 and 476-487 when oldsigneddata is None: the comments of the one
\* signeddata_getcomments call are classified, whatever newsequence is.
signeddata_shouldtrust_alone(returned_comments, newsequence, c) ==
  Evaluated(signeddata_verdict(returned_comments), c)

\* ------------------------------------------------------------------ inputs
Sign(f) ==
  signeddata_signdata(f.data, f.privatekey, f.publickey, f.timestamp, f.expiration,
                      f.sequenceno, f.destination)

\* Valid argument tuples: the ones above, data that holds the separators, and
\* a timestamp or an expiration given as a float: 1.0, 1.5, 0.5, -0.0, 1e+12,
\* 1e-05, 1234567890.123456 (a time of day with its microseconds), nan, inf.
ValidFields ==
  StampedFields \cup AddressedFields \cup KeyedFields
    \cup {[Base EXCEPT !.data = d, !.sequenceno = q] :
            d \in {<<>>, <<"a", "!", "b">>, <<"x", "\n">>}, q \in Sequences0}
    \cup {[Base EXCEPT ![k] = t] :
            k \in {"timestamp", "expiration"},
            t \in {Some(PyFloat(1, <<1>>, 0)), Some(PyFloat(1, <<1, 5>>, 0 - 1)),
                   Some(PyFloat(1, <<5>>, 0 - 1)), Some(PyFloat(0 - 1, <<0>>, 0)),
                   Some(PyFloat(1, <<1>>, 12)), Some(PyNaN), Some(PyInf(1))}
                    \cup {Some(ParseFloat(s).val) :
                            s \in {<<"1", "e", "-", "5">>,
                                   <<"1", "2", "3", "4", "5", "6", "7", "8", "9", "0", ".",
                                     "1", "2", "3", "4", "5", "6">>}}}
    \cup {[Base EXCEPT !.timestamp = Time(0 - 1)]}

\* Argument tuples a validator or the key check rejects.
InvalidFields ==
  {[Base EXCEPT !.timestamp = Some(PyNumber("other", 1, <<0>>, 0))],
   [Base EXCEPT !.timestamp = Some(PyNumber("other", 1, <<0>>, 0)), !.expiration = Time(0 - 1)],
   [Base EXCEPT !.expiration = Time(0 - 1)],
   [Base EXCEPT !.expiration = Some(PyNumber("other", 1, <<0>>, 0))],
   [Base EXCEPT !.expiration = Some(PyInf(0 - 1))],
   [Base EXCEPT !.sequenceno = Some(<<<<"a", "!">>, PyInt(0)>>)],
   [Base EXCEPT !.sequenceno = Some(<<<<"a", ":">>, PyInt(0)>>)],
   [Base EXCEPT !.sequenceno = Some(<<<<"a", "\n">>, PyInt(0)>>)],
   [Base EXCEPT !.sequenceno = Some(<<<<"a">>>>)],
   [Base EXCEPT !.sequenceno = Some(<<<<"a">>, PyInt(0), PyInt(0)>>)],
   [Base EXCEPT !.sequenceno = Some(<<<<"a">>, PyFloat(1, <<1>>, 0)>>)],
   [Base EXCEPT !.sequenceno = Some(<<<<"a">>, PyNaN>>)],
   [Base EXCEPT !.expiration = Time(0 - 1), !.sequenceno = Some(<<<<"a">>>>)],
   [Base EXCEPT !.sequenceno = Some(<<<<"a", "!">>, PyInt(0)>>),
                !.destination = Some(<<"n", "!">>)],
   [Base EXCEPT !.sequenceno = Some(<<<<"a", ":">>, PyInt(0)>>), !.privatekey = None],
   [Base EXCEPT !.destination = Some(<<"n", "!">>)],
   [Base EXCEPT !.expiration = Time(0 - 1), !.destination = Some(<<"n", "\n">>)],
   [Base EXCEPT !.privatekey = None],
   [Base EXCEPT !.privatekey = None, !.destination = Some(<<"n", "!">>)]}

\* An envelope written by the holder of private key 1 around the text
\* Forged(x).
Forge(x) == signeddata_sign_totaldata(Forged(x), Some(1), 1).val

WireTexts ==
  {<<>>, <<"x">>, <<"x", "!", "y">>,
   signeddata_totaldata(<<"d">>, <<"1">>, sNone, sNone, sNone, sNone),
   signeddata_totaldata(<<"d">>, <<"1">>, sNone, sNone, sNone, sNone) \o <<"!", "z">>}
    \cup {Forge(x) : x \in ForgedFields}

\* A message argument: its text, and the signdata arguments it was signed
\* from (None for a text that no signdata call of the model produced).
Msg(f) == [text |-> Sign(f).val, fields |-> Some(f)]
Raw(t) == [text |-> t, fields |-> None]

Fragment(m) ==
  [m EXCEPT !.text = signeddata_split_signature(m.text)[Len(signeddata_split_signature(m.text))]]

NewMsgs ==
  {Msg(f) : f \in StampedFields \cup AddressedFields \cup KeyedFields}
    \cup {Raw(t) : t \in WireTexts}
FewOldMsgs ==
  {Msg([Base EXCEPT !.timestamp = Time(0)]), Msg([Base EXCEPT !.sequenceno = SeqNo("a", 0)]),
   Raw(<<"x">>)}
FewNewMsgs ==
  {Msg(f) : f \in KeyedFields} \cup {Raw(<<"x">>)}
    \cup {Msg([Base EXCEPT !.timestamp = t]) : t \in OptTimes}

Opt(S) == {None} \cup {Some(x) : x \in S}

ReceiverWire == {Sign(f).val : f \in ReceiverFields} \cup {<<"x">>}

\* ------------------------------------------------------------------- state
VARIABLES
  pc,        \* "ready": a call is about to be made; "done": it has ended;
             \* "gettime", "updatetime", "reread", "identity": the call is
             \* about to read the clock (line 291), to resynchronize it
             \* (line 297), to read it again (line 298), to look up the
             \* identity (line 401);
             \* "run": the receiver process is running
  req,       \* the call and its arguments
  out,       \* the outcome of the call (of the last evaluation, for the receiver)
  me,        \* signeddata_identity['me']: None while no identity is set
  clk,       \* the clock of time.r2py: [synced, ntp, now, reads, updates]
  frame,     \* the locals of the running call: [pass, comments, currenttime]
  previous,  \* receiver: the last message it trusted, None at the start
  trusted,   \* receiver: the messages it trusted, in order
  held       \* concurrent check: the states signeddata_identity['me'] was in
             \* while signeddata_destined_for_me ran

vars == <<pc, req, out, me, clk, frame, previous, trusted, held>>


\* pass: the signeddata_getcomments call that is running, 1 (line 445, or a
\* direct call) or 2 (line 459), 0 outside of one; comments: returned_comments
\* so far; currenttime: the time signeddata_iscurrent read last, None before.

Init ==
  /\ pc = "ready"
  /\ \/ req \in [op : {"has_good_sequence_transition"}, old : Sequences0, new : Sequences0]
     \/ req \in [op : {"signdata"}, f : ValidFields \cup InvalidFields]
     \/ req \in [op : {"split"},
                  data : {Msg(f) : f \in ValidFields} \cup {Raw(t) : t \in WireTexts}]
     \/ req \in [op : {"issignedcorrectly"}, data : NewMsgs, publickey : Opt(Keys)]
     \/ req \in [op : {"getcomments"}, data : NewMsgs, publickey : Opt(Keys)]
     \/ req \in [op : {"shouldtrust"},
                  old : Opt({Msg([Base EXCEPT !.timestamp = t, !.sequenceno = q]) :
                               t \in OptTimes, q \in {None, SeqNo("a", 0)}}
                             \cup {Msg([Base EXCEPT !.timestamp = Some(PyNaN)]),
                                   Raw(<<"x">>),
                                   Raw(Forge(<<<<"1">>, <<"x">>, sNone, sNone>>))}),
                  new : NewMsgs, publickey : {None}, full : {TRUE}]
     \/ req \in [op : {"shouldtrust"}, old : Opt(FewOldMsgs),
                  new : {Msg(f) : f \in KeyedFields} \cup {Raw(<<"x">>)},
                  publickey : {Some(k) : k \in Keys}, full : {TRUE}]
     \/ req \in [op : {"shouldtrust"}, old : Opt({Fragment(m) : m \in FewOldMsgs}),
                  new : FewNewMsgs, publickey : Opt(Keys), full : {FALSE}]
     \/ req \in [op : {"shouldtrustmeta"}, old : Opt({Fragment(m) : m \in FewOldMsgs}),
                  new : FewNewMsgs, publickey : Opt(Keys)]
     \/ req \in [op : {"destined_for_me"},
                  destination : Opt({n1, n2, <<"n", "1", ":", "n", "2">>, sNone, <<"n">>,
                                     <<"n", "1", "0", ":", "n", "2">>})]
     \/ req \in [op : {"iscurrent"},
                  expiretime : OptTimes \cup {Some(PyFloat(1, <<5>>, 0 - 1)), Some(PyNaN), Some(PyInf(1))}]
  /\ out = [raised |-> "pending", val |-> <<>>]
  /\ me = None
  /\ clk = [synced |-> FALSE, ntp |-> TRUE, now |-> 0, reads |-> 0, updates |-> 0]
  /\ frame = [pass |-> 0, comments |-> <<>>, currenttime |-> None]
  /\ previous = None
  /\ trusted = <<>>
  /\ held = {}

\* ------------------------------------------------------------- environment
\* Other threads run between the calls and while a call waits for the clock
\* or is about to look up the identity.
Interruptible == pc \in {"ready", "gettime", "updatetime", "reread", "identity", "run"}

signeddata_set_identity(identity) ==
  /\ Interruptible
  /\ me' = Some(identity)
  /\ UNCHANGED <<pc, req, out, clk, frame, previous, trusted, held>>

\* Time passes.
Tick ==
  /\ Interruptible
  /\ clk.now < MaxTime
  /\ clk' = [clk EXCEPT !.now = clk.now + 1]
  /\ UNCHANGED <<pc, req, out, me, frame, previous, trusted, held>>

\* The time servers become unreachable or reachable again.
NtpChange ==
  /\ Interruptible
  /\ clk' = [clk EXCEPT !.ntp = ~clk.ntp]
  /\ UNCHANGED <<pc, req, out, me, frame, previous, trusted, held>>

\* The program around this module synchronizes the clock at its start.
ClockSync ==
  /\ Interruptible
  /\ ~clk.synced
  /\ clk.ntp
  /\ clk' = [clk EXCEPT !.synced = TRUE]
  /\ UNCHANGED <<pc, req, out, me, frame, previous, trusted, held>>

\* ------------------------------------------------------------------- calls
\* A call that reads neither the clock nor the identity is one step.
Returns(o) ==
  /\ out' = o
  /\ pc' = "done"
  /\ UNCHANGED <<req, me, clk, frame, previous, trusted, held>>

CallTransition ==
  /\ pc = "ready" /\ req.op = "has_good_sequence_transition"
  /\ Returns(signeddata_has_good_sequence_transition(req.old, req.new))

CallSigndata ==
  /\ pc = "ready" /\ req.op = "signdata"
  /\ Returns(Sign(req.f))

CallSplit ==
  /\ pc = "ready" /\ req.op = "split"
  /\ Returns(signeddata_split(req.data.text))

CallIssignedcorrectly ==
  /\ pc = "ready" /\ req.op = "issignedcorrectly"
  /\ Returns(signeddata_issignedcorrectly(req.data.text, req.publickey))

CallDestinedForMe ==
  /\ pc = "ready" /\ req.op = "destined_for_me"
  /\ Returns(Ok(signeddata_destined_for_me(req.destination, me)))


\* What the call r hands to signeddata_getcomments: the text and the
\* expected key (signeddata_shouldtrustmeta passes publickey=None and
\* oldsigneddata_is_fullrequest=False on, whatever it was given).
CallText(r) == IF r.op = "getcomments" THEN r.data.text ELSE r.new.text
CallKey(r) == IF r.op = "shouldtrustmeta" THEN None ELSE r.publickey

\* The decoded new and old message of the call r.
CallNew(r) == signeddata_split(CallText(r))
CallOld(r) == signeddata_split_old(r.old[1].text, r.op = "shouldtrust" /\ r.full)
CallVerified(r) == signeddata_issignedcorrectly(CallText(r), CallKey(r))

\* The local variables of the call r, computed once by the code and read by
\* the statements that follow: new is the outcome of signeddata_split on the
\* new text, old the one of the old text, verified the outcome of
\* signeddata_issignedcorrectly.
CallExpiretime(r, new) == IF r.op = "iscurrent" THEN r.expiretime ELSE new.val[4]

\* Where a step leaves the call: at its next read, or at its end with
\* outcome o.
Position(next, pass, comments) ==
  [pc |-> next, out |-> [raised |-> "pending", val |-> <<>>], pass |-> pass, comments |-> comments]
Ended(o) == [pc |-> "done", out |-> [raised |-> o.raised, val |-> o.val], pass |-> 0, comments |-> <<>>]

\* Lines 448-459: what follows the first signeddata_getcomments call, up to
\* the first read of the second one.
RECURSIVE signeddata_getcomments(_, _, _, _, _, _)
AfterFirst(r, comments, new, old, verified) ==
  IF r.old = None THEN Ended(signeddata_shouldtrust_alone(comments, new.val[5], clk))
  ELSE IF old.raised # "none" THEN Ended(Evaluated(old, clk))
  ELSE signeddata_getcomments(r, 2, comments, new, old, verified)

\* Line 405: signeddata_getcomments returns, to lines 448-459 from the first
\* call of signeddata_shouldtrust and to lines 461-487 from the second.
EndPass(r, pass, comments, new, old, verified) ==
  IF r.op = "getcomments" THEN Ended(Ok(comments))
  ELSE IF pass = 1 THEN AfterFirst(r, comments, new, old, verified)
  ELSE Ended(signeddata_shouldtrust_compare(
               comments,
               signeddata_sequence_comments(old.val[5], new.val[5]),
               signeddata_timestamp_comments(old.val[3], new.val[3]),
               clk))

\* Line 401: the identity is looked up when the text names a destination.
AfterExpiration(r, pass, comments, new, old, verified) ==
  IF new.val[6] # None THEN Position("identity", pass, comments)
  ELSE EndPass(r, pass, comments, new, old, verified)

\* Lines 388-392: the comments on the key and the signature.
AfterSplit(r, comments, new, verified) ==
  comments \o signeddata_key_comments(new.val[2], verified.val, CallKey(r))

\* Lines 381-395: signeddata_getcomments up to its call of
\* signeddata_iscurrent, which reads the clock when the text has an
\* expiration.
signeddata_getcomments(r, pass, comments, new, old, verified) ==
  IF new.raised = "KeyError" THEN EndPass(r, pass, comments \o <<"Malformed signed data">>, new, old, verified)
  ELSE IF new.raised # "none" THEN Ended(new)
  ELSE IF verified.raised # "none" THEN Ended(verified)
  ELSE IF new.val[4] # None THEN Position("gettime", pass, AfterSplit(r, comments, new, verified))
  ELSE AfterExpiration(r, pass, AfterSplit(r, comments, new, verified), new, old, verified)

\* Lines 437-445: signeddata_shouldtrust up to its first call of
\* signeddata_getcomments.
signeddata_shouldtrust(r, new, old, verified) ==
  IF verified.raised # "none" THEN Ended(verified)
  ELSE IF ~verified.val THEN Ended(Ok(<<"False", <<"Bad signature">>>>))
  ELSE IF new.raised # "none" THEN Ended(new)
  ELSE signeddata_getcomments(r, 1, <<>>, new, old, verified)

\* Lines 283-291: signeddata_iscurrent up to its read of the clock.
signeddata_iscurrent(r) ==
  IF r.expiretime = None THEN Ended(Ok(TRUE)) ELSE Position("gettime", 0, <<>>)

\* Lines 300-303 and what follows signeddata_iscurrent in its caller;
\* current is the outcome of signeddata_iscurrent.
AfterCurrent(r, current, new, old, verified) ==
  IF r.op = "iscurrent" THEN Ended(current)
  ELSE AfterExpiration(r, frame.pass, frame.comments \o signeddata_expiration_comment(current),
                       new, old, verified)

\* Lines 401-402: the comment signeddata_destined_for_me(destination) leads
\* to, and the return of signeddata_getcomments.
AfterDestination(r, new, old, verified) ==
  EndPass(r, frame.pass,
          frame.comments \o signeddata_destination_comment(new.val[6], me),
          new, old, verified)

\* One step of the call: it is left at position p with clock c, the time
\* read last being t.
Step(p, c, t) ==
  /\ pc' = p.pc
  /\ out' = p.out
  /\ frame' = [pass |-> p.pass, comments |-> p.comments, currenttime |-> t]
  /\ clk' = c
  /\ UNCHANGED <<req, me, previous, trusted, held>>

\* signeddata_shouldtrust on the arguments of the call r, up to its first
\* read.
CallTrust(r) == signeddata_shouldtrust(r, CallNew(r), CallOld(r), CallVerified(r))

CallIscurrent ==
  /\ pc = "ready" /\ req.op = "iscurrent"
  /\ Step(signeddata_iscurrent(req), clk, None)

CallGetcomments ==
  /\ pc = "ready" /\ req.op = "getcomments"
  /\ Step(signeddata_getcomments(req, 1, <<>>, CallNew(req), None, CallVerified(req)), clk, None)

CallShouldtrust ==
  /\ pc = "ready" /\ req.op = "shouldtrust"
  /\ Step(CallTrust(req), clk, None)

CallShouldtrustmeta ==
  /\ pc = "ready" /\ req.op = "shouldtrustmeta"
  /\ Step(CallTrust(req), clk, None)

\* Line 291: currenttime = time_gettime().  A read that succeeds is compared
\* at once (lines 300-303) and the call goes on behind signeddata_iscurrent;
\* one that fails leads to the resynchronization.
IscurrentGettime ==
  /\ pc = "gettime"
  /\ LET read == time_gettime(clk)
     IN  IF read.raised = "none"
           THEN Step(AfterCurrent(req,
                                  signeddata_iscurrent_compare(
                                    CallExpiretime(req, CallNew(req)), read, read.clk),
                                  CallNew(req), CallOld(req), CallVerified(req)),
                     read.clk, Some(read.val))
         ELSE Step(Position("updatetime", frame.pass, frame.comments), read.clk,
                   frame.currenttime)

\* Line 297: time_updatetime(34612) returns after its wait for the time
\* servers.  Its TimeError ends signeddata_iscurrent; otherwise the call is
\* about to read the clock again.
IscurrentUpdatetime ==
  /\ pc = "updatetime"
  /\ LET update == signeddata_iscurrent_retry(clk)
     IN  IF update.raised = "none"
           THEN Step(Position("reread", frame.pass, frame.comments), update.clk,
                     frame.currenttime)
         ELSE Step(AfterCurrent(req, [raised |-> "TimeError", val |-> FALSE],
                                CallNew(req), CallOld(req), CallVerified(req)),
                   update.clk, frame.currenttime)

\* Lines 298-303: currenttime = time_gettime() in the except branch, and the
\* comparison; a TimeError of this read ends signeddata_iscurrent.
IscurrentReread ==
  /\ pc = "reread"
  /\ LET read == time_gettime(clk)
     IN  Step(AfterCurrent(req,
                           signeddata_iscurrent_compare(
                             CallExpiretime(req, CallNew(req)), read, read.clk),
                           CallNew(req), CallOld(req), CallVerified(req)),
              read.clk, IF read.raised = "none" THEN Some(read.val) ELSE frame.currenttime)

\* Lines 401-402: signeddata_destined_for_me(destination) looks up the
\* identity, and signeddata_getcomments returns.
GetcommentsDestination ==
  /\ pc = "identity"
  /\ Step(AfterDestination(req, CallNew(req), CallOld(req), CallVerified(req)), clk, frame.currenttime)

\* ---------------------------------------------------------------- receiver
\* A receiver evaluates each arriving text against the last message it
\* trusted and keeps it as the new reference only when the verdict is
\* Trusted.
\* The call the receiver makes on the arrival of text; its texts carry no
\* expiration, so the call reads the identity only.
ReceiverCall(text) ==
  [op |-> "shouldtrust", old |-> IF previous = None THEN None ELSE Some([text |-> previous[1]]),
   new |-> [text |-> text], publickey |-> None, full |-> TRUE]

\* One step of the receiver's call r, which leaves it at position p: at its
\* end the receiver keeps the text when the verdict is Trusted, and waits
\* for the next text.
Evaluate(r, p) ==
  /\ pc' = IF p.pc = "done" THEN "run" ELSE p.pc
  /\ req' = IF p.pc = "done" THEN [op |-> "receiver"] ELSE r
  /\ out' = IF p.pc = "done" THEN [raised |-> p.out.raised, val |-> p.out.val, text |-> r.new.text]
            ELSE out
  /\ frame' = IF p.pc = "done" THEN [pass |-> 0, comments |-> <<>>, currenttime |-> None]
              ELSE [pass |-> p.pass, comments |-> p.comments, currenttime |-> None]
  /\ previous' = IF p.out.raised = "none" /\ p.out.val[1] = "True" THEN Some(r.new.text)
                 ELSE previous
  /\ trusted' = IF p.out.raised = "none" /\ p.out.val[1] = "True"
                  THEN Append(trusted, r.new.text)
                ELSE trusted
  /\ UNCHANGED <<me, clk, held>>

Receive(text) ==
  /\ pc = "run"
  /\ Len(trusted) < MaxLog
  /\ Evaluate(ReceiverCall(text), CallTrust(ReceiverCall(text)))

\* Line 401 in the receiver's call.
ReceiveDestination ==
  /\ pc = "identity"
  /\ Evaluate(req, AfterDestination(req, CallNew(req), CallOld(req), CallVerified(req)))

Next ==
  \/ \E identity \in {n1, n2} : signeddata_set_identity(identity)
  \/ Tick
  \/ NtpChange
  \/ ClockSync
  \/ CallTransition
  \/ CallSigndata
  \/ CallSplit
  \/ CallIssignedcorrectly
  \/ CallGetcomments
  \/ CallShouldtrust
  \/ CallShouldtrustmeta
  \/ CallDestinedForMe
  \/ CallIscurrent
  \/ IscurrentGettime
  \/ IscurrentUpdatetime
  \/ IscurrentReread
  \/ GetcommentsDestination

\* The calls of the module, each made once on arguments drawn at the start.
Spec == Init /\ [][Next]_vars

InitReceiver ==
  /\ pc = "run"
  /\ req = [op |-> "receiver"]
  /\ out = [raised |-> "pending", val |-> <<>>, text |-> <<>>]
  /\ me = None
  /\ clk = [synced |-> FALSE, ntp |-> TRUE, now |-> 0, reads |-> 0, updates |-> 0]
  /\ frame = [pass |-> 0, comments |-> <<>>, currenttime |-> None]
  /\ previous = None
  /\ trusted = <<>>
  /\ held = {}

NextReceiver ==
  \/ signeddata_set_identity(n1)
  \/ \E text \in ReceiverWire : Receive(text)
  \/ ReceiveDestination

\* The receiver process fed from the network.
SpecReceiver == InitReceiver /\ [][NextReceiver]_vars

\* ------------------------------------------------------- concurrent check
\* One thread runs signeddata_destined_for_me(destination) statement by
\* statement while other threads call signeddata_set_identity.  pc is the
\* statement the check is at: "none" (line 357), "present" (line 361),
\* "member" (line 365), "done".
InitConcurrent ==
  /\ pc = "none"
  /\ req \in [op : {"destined_for_me"},
               destination : Opt({n1, n2, <<"n", "1", ":", "n", "2">>, sNone, <<"n">>,
                                  <<"n", "1", "0", ":", "n", "2">>})]
  /\ out = [raised |-> "pending", val |-> <<>>]
  /\ me \in Opt({n1, n2})
  /\ clk = [synced |-> FALSE, ntp |-> TRUE, now |-> 0, reads |-> 0, updates |-> 0]
  /\ frame = [pass |-> 0, comments |-> <<>>, currenttime |-> None]
  /\ previous = None
  /\ trusted = <<>>
  /\ held = {me}

\* Mutant: the entry is removed before the new identity is stored, and a
\* check can run between the two.
set_identity_clears_first(identity) ==
  /\ pc \in {"none", "present", "member"}
  /\ me' \in {None, Some(identity)}
  /\ held' = held \cup {Some(identity)}
  /\ UNCHANGED <<pc, req, out, clk, frame, previous, trusted>>

\* signeddata_identity['me'] = identity in another thread: one store.
signeddata_set_identity_concurrently(identity) ==
  /\ pc \in {"none", "present", "member"}
  /\ me' = Some(identity)
  /\ held' = held \cup {Some(identity)}
  /\ UNCHANGED <<pc, req, out, clk, frame, previous, trusted>>

\* The check moves to the statement next, or ends with outcome o.
CheckStep(next, o) ==
  /\ out' = o
  /\ pc' = next
  /\ UNCHANGED <<req, me, clk, frame, previous, trusted, held>>

\* if destination == None: return True
DestinedNone ==
  /\ pc = "none"
  /\ IF req.destination = None THEN CheckStep("done", Ok(TRUE)) ELSE CheckStep("present", out)

\* if 'me' not in signeddata_identity: return False
DestinedPresent ==
  /\ pc = "present"
  /\ IF me = None THEN CheckStep("done", Ok(FALSE)) ELSE CheckStep("member", out)

\* if signeddata_identity['me'] in destination.split(':'): return True
\* return False
DestinedMember ==
  /\ pc = "member"
  /\ IF me = None THEN CheckStep("done", Raise("KeyError", "me"))
     ELSE CheckStep("done",
                    Ok(\E list \in {rsplit(req.destination[1], ":", Len(req.destination[1]))} :
                         \E i \in 1..Len(list) : list[i] = me[1]))

NextConcurrent ==
  \/ \E identity \in {n1, n2} : signeddata_set_identity_concurrently(identity)
  \/ DestinedNone
  \/ DestinedPresent
  \/ DestinedMember

\* signeddata_destined_for_me in one thread, signeddata_set_identity in others.
SpecConcurrent == InitConcurrent /\ [][NextConcurrent]_vars

\* ================================================================== claims
Done(op) == pc = "done" /\ req.op = op
Returned == out.raised = "none"
Verdict == out.val[1]
Comments == out.val[2]
Has(list, x) == \E i \in 1..Len(list) : list[i] = x
CountOf(text, c) == Cardinality({i \in 1..Len(text) : text[i] = c})

\* The signdata arguments the new / old message of the call was signed from.
NewSigned == req.new.fields # None
NewFields == req.new.fields[1]
OldSigned == req.old # None /\ req.old[1].fields # None
OldFields == req.old[1].fields[1]

\* The new message passes the verification that opens signeddata_shouldtrust.
NewVerified == signeddata_issignedcorrectly(req.new.text, req.publickey) = Ok(TRUE)

\* ------------------------------------------------------------------------ C1
\* The transition rule as the specification words it.
Tag(q) == q[1][1]
Counter(q) == q[1][2].sign * DigitsToNat(Numeral(q[1][2].m))
ValidTransition(old, new) ==
  \/ new = None
  \/ new # None /\ old = None /\ Counter(new) = 0
  \/ new # None /\ old # None /\ Tag(old) = Tag(new) /\ Counter(new) = Counter(old) + 1
  \/ new # None /\ old # None /\ Tag(old) # Tag(new) /\ Counter(new) = 0

\* C1: signeddata_has_good_sequence_transition(old, new) returns true exactly
\* when new is None, or old is None and new.counter = 0, or the tags are equal
\* and new.counter = old.counter + 1, or the tags differ and new.counter = 0;
\* it returns false in every other case.
C1_SequenceTransition ==
  Done("has_good_sequence_transition") =>
    /\ Returned
    /\ out.val = ValidTransition(req.old, req.new)

\* A gap within one sequence was offered and rejected.
C1_Witness ==
  /\ Done("has_good_sequence_transition")
  /\ req.old = SeqNo("a", 0)
  /\ req.new = SeqNo("a", 2)
  /\ out = Ok(FALSE)

\* ------------------------------------------------------------------------ C2
\* C2: every evaluation of signeddata_shouldtrust that returns gives Trusted
\* with an empty comment list iff no comment was collected, Untrusted iff some
\* collected comment is fatal, and Indeterminate iff the list is not empty and
\* holds warnings only; the comments returned are the comments collected
\* (spelt out where there is no old message and no expiration, so that the
\* identity is all the evaluation looks up, in the step that ends it).
C2_VerdictClassification ==
  (Done("shouldtrust") /\ Returned) =>
    /\ Verdict \in {"True", "False", "None"}
    /\ Verdict = "True" <=> Comments = <<>>
    /\ Verdict = "False" <=>
         \E i \in 1..Len(Comments) : Comments[i] \in signeddata_fatal_comments
    /\ Verdict = "None" <=>
         /\ Comments # <<>>
         /\ \A i \in 1..Len(Comments) : Comments[i] \in signeddata_warning_comments
    /\ (req.old = None /\ NewVerified /\ CallExpiretime(req, CallNew(req)) = None) =>
         Comments = AfterSplit(req, <<>>, CallNew(req), CallVerified(req))
                      \o signeddata_destination_comment(CallNew(req).val[6], me)

\* A warning was collected before a fatal comment, and the verdict is Untrusted.
C2_Witness ==
  /\ Done("shouldtrust") /\ Returned
  /\ Len(Comments) >= 2
  /\ Comments[1] \in signeddata_warning_comments
  /\ Has(Comments, "Timestamps out of order")
  /\ Verdict = "False"

\* ------------------------------------------------------------------------ C3
\* C3: a receiver that starts without a previous message and replaces it only
\* by a message whose verdict is Trusted gives no message the verdict Trusted
\* twice.
C3_NoReplay ==
  \A i \in 1..Len(trusted) : \A j \in 1..Len(trusted) : i < j => trusted[i] # trusted[j]

\* The first trusted message came again after a later one was trusted, and
\* was not trusted.
C3_Witness ==
  /\ Len(trusted) = 2
  /\ out.text = trusted[1]
  /\ out.raised = "none"
  /\ out.val[1] = "False"

\* ------------------------------------------------------------------------ C4
\* The node is not among the recipients d names.
NotARecipient(d) == me = None \/ ~Has(rsplit(d, ":", Len(d)), me[1])

\* C4: a message signed with a destination string d, evaluated on a node
\* whose identity is unset or is no element of d split on ':', is never
\* Trusted or Indeterminate: the verdict is Untrusted and the comments hold
\* 'Not destined for this node'.  (Stated of the evaluations that return.)
C4_Misdelivery ==
  (/\ Done("shouldtrust") /\ Returned
   /\ NewSigned /\ NewVerified
   /\ NewFields.destination # None
   /\ NotARecipient(NewFields.destination[1])) =>
    /\ Verdict = "False"
    /\ Has(Comments, "Not destined for this node")

\* ------------------------------------------------------------------------ C5
\* C5: with an old message whose timestamp is None, no timestamp-ordering
\* comment is appended, whether the new timestamp is a number or None.
C5_OldTimestampNone ==
  (/\ Done("shouldtrust") /\ Returned
   /\ OldSigned /\ NewSigned /\ NewVerified
   /\ OldFields.timestamp = None) =>
    /\ ~Has(Comments, "Timestamps out of order")
    /\ ~Has(Comments, "Timestamps match")

\* ------------------------------------------------------------------------ C6
\* C6: with an old message whose timestamp is a number t_old, once the new
\* message has passed verification: a new timestamp that is None or below
\* t_old gives 'Timestamps out of order' and the verdict Untrusted; an equal
\* one gives 'Timestamps match' and not 'Timestamps out of order'; a larger
\* one gives neither comment.
C6_OldTimestampSet ==
  (/\ Done("shouldtrust") /\ Returned
   /\ OldSigned /\ NewSigned /\ NewVerified
   /\ OldFields.timestamp # None) =>
    IF NewFields.timestamp = None \/ FloatLt(NewFields.timestamp[1], OldFields.timestamp[1])
      THEN Has(Comments, "Timestamps out of order") /\ Verdict = "False"
    ELSE IF FloatEq(NewFields.timestamp[1], OldFields.timestamp[1])
      THEN Has(Comments, "Timestamps match") /\ ~Has(Comments, "Timestamps out of order")
    ELSE ~Has(Comments, "Timestamps match") /\ ~Has(Comments, "Timestamps out of order")

\* Equal timestamps, nothing else to report: the verdict is Indeterminate.
C6_Witness ==
  /\ Done("shouldtrust") /\ Returned
  /\ OldSigned /\ NewSigned /\ NewVerified
  /\ OldFields.timestamp # None
  /\ NewFields.timestamp = OldFields.timestamp
  /\ Has(Comments, "Timestamps match")
  /\ Verdict = "None"

\* ------------------------------------------------------------------------ C7
\* C7: on a text with fewer than 6 '!', signeddata_issignedcorrectly returns
\* false and signeddata_getcomments returns a list that holds 'Malformed
\* signed data'; neither raises.
C7_MalformedText ==
  (pc = "done" /\ req.op \in {"issignedcorrectly", "getcomments"}
     /\ CountOf(req.data.text, "!") < 6) =>
    /\ Returned
    /\ req.op = "issignedcorrectly" => out.val = FALSE
    /\ req.op = "getcomments" => Has(out.val, "Malformed signed data")

\* ------------------------------------------------------------------------ C8
\* C8: signeddata_shouldtrust never raises, whatever texts it is given as the
\* old and the new message.
C8_NeverRaises == Done("shouldtrust") => Returned

\* ------------------------------------------------------------------------ C9
\* C9: signeddata_shouldtrustmeta(old, new, pk) returns what
\* signeddata_shouldtrust(old, new, pk, oldsigneddata_is_fullrequest=False)
\* returns.  (Compared on new messages without expiration and destination,
\* whose evaluation reads neither the clock nor the identity and so cannot
\* differ through what other threads do.)
C9_MetaEquivalence ==
  (/\ Done("shouldtrustmeta") /\ Returned
   /\ CallNew(req).raised = "none"
   /\ CallNew(req).val[4] = None
   /\ CallNew(req).val[6] = None) =>
    CallTrust([op |-> "shouldtrust", old |-> req.old, new |-> req.new,
               publickey |-> req.publickey, full |-> FALSE]).out = out

\* ----------------------------------------------------------------------- C10
\* C10: signeddata_split of the text signeddata_signdata made from valid
\* arguments returns the payload, public key, timestamp, expiration, sequence
\* number and destination it was made from.
\* (A number comes back as a float: the same value is a number equal to it.)
SameNumber(a, b) == (a = None /\ b = None) \/ (a # None /\ b # None /\ FloatEq(a[1], b[1]))

C10_RoundTrip ==
  (Done("split") /\ req.data.fields # None) =>
    /\ Returned
    /\ out.val[1] = req.data.fields[1].data
    /\ out.val[2] = req.data.fields[1].publickey
    /\ SameNumber(out.val[3], req.data.fields[1].timestamp)
    /\ SameNumber(out.val[4], req.data.fields[1].expiration)
    /\ out.val[5] = req.data.fields[1].sequenceno
    /\ out.val[6] = req.data.fields[1].destination

\* ----------------------------------------------------------------------- C11
\* The time on the clock, as time_gettime returns it.
Now == PyFloat(1, PyInt(clk.now).m, 0)

\* The expiration of the new message lies after the time x.
ExpiresAfter(x) == FloatGt(NewFields.expiration[1], x[1])

\* C11: signeddata_iscurrent returns true on expiration None without a call
\* of the clock; on a number it returns, when a time server answers or the
\* first read succeeds, and when it returns its result is true iff
\* expiration > now, the time it read as it returned.  A correctly signed
\* message with an expiration is Trusted by signeddata_shouldtrust only if
\* the expiration lies after the time read last, and is Untrusted with
\* 'Expired signature' when it does not; no time read lies after the time on
\* the clock.
C11_Expiration ==
  /\ (Done("iscurrent") /\ req.expiretime = None) =>
       (Returned /\ out.val = TRUE /\ clk.reads = 0 /\ clk.updates = 0)
  /\ (Done("iscurrent") /\ req.expiretime # None) =>
       /\ (clk.ntp \/ clk.updates = 0) => Returned
       /\ Returned => out.val = FloatGt(req.expiretime[1], Now)
  /\ frame.currenttime # None => ~FloatGt(frame.currenttime[1], Now)
  /\ (/\ Done("shouldtrust") /\ Returned
      /\ NewSigned /\ NewVerified
      /\ NewFields.expiration # None) =>
       /\ Verdict = "True" => (frame.currenttime # None /\ ExpiresAfter(frame.currenttime))
       /\ (frame.currenttime # None /\ ~ExpiresAfter(frame.currenttime)) =>
            (Verdict = "False" /\ Has(Comments, "Expired signature"))

\* The expiration equals the time read from a clock that had advanced: expired.
C11_Witness ==
  /\ Done("iscurrent") /\ Returned
  /\ clk.now = MaxTime
  /\ req.expiretime = Time(clk.now)
  /\ out.val = FALSE

\* ----------------------------------------------------------------------- C12
\* The signdata arguments of the text given to signeddata_getcomments.
DataFields == req.data.fields[1]

\* The signeddata_getcomments calls an evaluation that returned has made.
Passes == IF req.old = None THEN 1 ELSE 2

\* C12: signeddata_iscurrent ends after one read that succeeded, or after one
\* read that failed and one resynchronization that failed, with the
\* TimeError, or after one read that failed, one resynchronization and one
\* more read, whose value decides the result.  signeddata_getcomments
\* returns 'Cannot check expiration' instead of the TimeError, once for each
\* resynchronization that failed; signeddata_shouldtrust does not raise the
\* TimeError (and returns, when there is no old message to decode) and gives
\* Indeterminate when its comments are warnings only.
C12_ClockRetry ==
  /\ (Done("iscurrent") /\ req.expiretime # None) =>
       \/ clk.reads = 1 /\ clk.updates = 0 /\ Returned
       \/ clk.reads = 1 /\ clk.updates = 1 /\ out.raised = "TimeError"
       \/ clk.reads = 2 /\ clk.updates = 1 /\ Returned
  /\ (Done("getcomments") /\ req.data.fields # None /\ DataFields.expiration # None) =>
       /\ Returned
       /\ clk.updates <= 1
       /\ CountOf(out.val, "Cannot check expiration") = 1 + clk.updates - clk.reads
       /\ Has(out.val, "Cannot check expiration") => ~Has(out.val, "Expired signature")
  /\ (Done("shouldtrust") /\ NewSigned /\ NewVerified /\ NewFields.expiration # None) =>
       /\ out.raised # "TimeError"
       /\ req.old = None => Returned
       /\ Returned =>
            /\ CountOf(Comments, "Cannot check expiration") = Passes + clk.updates - clk.reads
            /\ (/\ Comments # <<>>
                /\ \A i \in 1..Len(Comments) : Comments[i] \in signeddata_warning_comments)
                 => Verdict = "None"

\* The first read failed and the resynchronization succeeded; before the
\* second read the time servers were lost and the clock advanced to the
\* expiration, and the time read then decided: expired.
C12_Witness ==
  /\ Done("iscurrent") /\ Returned
  /\ req.expiretime = Time(1)
  /\ clk.reads = 2 /\ clk.updates = 1
  /\ ~clk.ntp /\ clk.now = 1
  /\ out.val = FALSE

\* ----------------------------------------------------------------------- C13
\* C13: in every evaluation of signeddata_shouldtrust that returns after the
\* verification, no comment of signeddata_getcomments(new, publickey) is in
\* the returned list more than once, also when there is an old message.
C13_CommentsOnce ==
  (Done("shouldtrust") /\ Returned /\ NewVerified) =>
    \A x \in signeddata_all_comments \ {"Invalid sequence transition", "Timestamps out of order", "Timestamps match"} :
      CountOf(Comments, x) <= 1

\* ----------------------------------------------------------------------- C14
\* C14: signeddata_issignedcorrectly returns a boolean on every text and
\* every optional expected key and never raises; it returns true only if the
\* digest recovered from the signature is the hash of the text before the
\* last '!'.
C14_VerifyTotal ==
  Done("issignedcorrectly") =>
    /\ Returned
    /\ out.val \in BOOLEAN
    /\ out.val = TRUE =>
         /\ Len(rsplit(req.data.text, "!", 1)) = 2
         /\ rsa_verify(rsplit(req.data.text, "!", 1)[2],
                       rsa_string_to_publickey(rsplit(rsplit(req.data.text, "!", 1)[1], "!", 5)[2]).val)
              = Ok(sha_hash(rsplit(req.data.text, "!", 1)[1]))

\* ----------------------------------------------------------------------- C15
\* The field errors as the specification words them.
BadTimestamp(f) == f.timestamp # None /\ ~IsNumber(f.timestamp[1])
BadExpiration(f) ==
  /\ f.expiration # None
  /\ ~IsNumber(f.expiration[1]) \/ FloatLt(f.expiration[1], PyInt(0))
BadSequenceNumber(f) ==
  /\ f.sequenceno # None
  /\ \/ Len(f.sequenceno[1]) # 2
     \/ Has(f.sequenceno[1][1], "!")
     \/ Has(f.sequenceno[1][1], ":")
     \/ Has(f.sequenceno[1][1], "\n")
     \/ f.sequenceno[1][2].kind # "int"
BadDestination(f) ==
  f.destination # None /\ (Has(f.destination[1], "!") \/ Has(f.destination[1], "\n"))

\* C15: signeddata_signdata fails with the error that names the first invalid
\* field in the order timestamp, expiration, sequence number, destination;
\* with valid fields and no private key it fails with the invalid-private-key
\* error; only with valid fields and a private key does it return a signed
\* text.
C15_SigndataValidation ==
  Done("signdata") =>
    IF BadTimestamp(req.f) THEN out = Raise("ValueError", "Invalid Timestamp")
    ELSE IF BadExpiration(req.f) THEN out = Raise("ValueError", "Invalid Expiration Time")
    ELSE IF BadSequenceNumber(req.f) THEN out = Raise("ValueError", "Invalid Sequence Number")
    ELSE IF BadDestination(req.f) THEN out = Raise("ValueError", "Invalid Destination")
    ELSE IF req.f.privatekey = None THEN out = Raise("ValueError", "Invalid Private Key")
    ELSE Returned /\ CountOf(out.val, "!") >= 6

\* Expiration and destination are both invalid: the expiration is named.
C15_Witness ==
  /\ Done("signdata")
  /\ BadExpiration(req.f) /\ BadDestination(req.f)
  /\ out = Raise("ValueError", "Invalid Expiration Time")

\* ----------------------------------------------------------------------- C16
\* x is one whole element of d split on ':': it lies between two ':' (or an
\* end of d) and holds no ':'.
WholeElement(x, d) ==
  \E i \in 1..(Len(d) + 1) : \E j \in (i - 1)..Len(d) :
    /\ SubSeq(d, i, j) = x
    /\ i = 1 \/ d[i - 1] = ":"
    /\ j = Len(d) \/ d[j + 1] = ":"
    /\ \A k \in i..j : d[k] # ":"

\* C16: signeddata_destined_for_me(destination) returns true when destination
\* is None, false when it is set and no identity is set, and otherwise true
\* iff the identity is one whole element of destination split on ':'.
C16_DestinedForMe ==
  Done("destined_for_me") =>
    /\ Returned
    /\ out.val = IF req.destination = None THEN TRUE
                 ELSE IF me = None THEN FALSE
                 ELSE WholeElement(me[1], req.destination[1])

\* The identity is a prefix of an element of the destination: no match.
C16_Witness ==
  /\ Done("destined_for_me")
  /\ me = Some(n1)
  /\ req.destination = Some(<<"n", "1", "0", ":", "n", "2">>)
  /\ out.val = FALSE

\* ----------------------------------------------------------------------- C17
\* The sequence number the i-th trusted message carries.
SequenceOf(i) == signeddata_split(trusted[i]).val[5]

\* The i-th and the j-th trusted message carry the same tag and no message
\* trusted between them carries it.
NextOfTag(i, j) ==
  /\ i < j
  /\ SequenceOf(i) # None /\ SequenceOf(j) # None
  /\ SequenceOf(i)[1][1] = SequenceOf(j)[1][1]
  /\ \A k \in (i + 1)..(j - 1) :
       SequenceOf(k) = None \/ SequenceOf(k)[1][1] # SequenceOf(i)[1][1]

\* C17: in a run of the receiver, two trusted messages of the same tag with
\* no trusted message of that tag between them carry counters n and n + 1,
\* whatever was trusted between them.
C17_SequenceHistory ==
  \A i \in 1..Len(trusted) : \A j \in 1..Len(trusted) :
    NextOfTag(i, j) => Counter(SequenceOf(j)) = Counter(SequenceOf(i)) + 1

\* C17 as amended: the later one carries n + 1 when it was trusted directly
\* after the earlier one, and 0 when any message was trusted between them.
C17_SequenceHistoryAmended ==
  \A i \in 1..Len(trusted) : \A j \in 1..Len(trusted) :
    NextOfTag(i, j) =>
      IF j = i + 1 THEN Counter(SequenceOf(j)) = Counter(SequenceOf(i)) + 1
      ELSE Counter(SequenceOf(j)) = 0

\* A sequence was started, a message of another tag was trusted, and the
\* first sequence was started again.
C17_Witness ==
  /\ Len(trusted) = 3
  /\ SequenceOf(1) = SeqNo("a", 0)
  /\ SequenceOf(2) = SeqNo("b", 0)
  /\ SequenceOf(3) = SeqNo("a", 0)

\* ----------------------------------------------------------------------- C18
\* C18: the fatal and the warning comments are disjoint, every comment that
\* signeddata_getcomments or signeddata_shouldtrust returns is in one of the
\* two sets, and no evaluation ends in the AssertionError of one of the two
\* assertions of signeddata_shouldtrust.
C18_AssertionsHold ==
  /\ signeddata_fatal_comments \cap signeddata_warning_comments = {}
  /\ (Done("getcomments") /\ Returned) =>
       \A i \in 1..Len(out.val) : out.val[i] \in signeddata_all_comments
  /\ (pc = "done" /\ req.op \in {"shouldtrust", "shouldtrustmeta"}) =>
       /\ out.raised # "AssertionError"
       /\ Returned => \A i \in 1..Len(Comments) : Comments[i] \in signeddata_all_comments

\* ----------------------------------------------------------------------- C19
\* The new message is unexpired at the time the node read, and this node is
\* among its recipients.
NewUnexpired ==
  \/ NewFields.expiration = None
  \/ frame.currenttime # None /\ ExpiresAfter(frame.currenttime)
NewAddressedHere ==
  \/ NewFields.destination = None
  \/ me # None /\ WholeElement(me[1], NewFields.destination[1])

\* C19: without an old message signeddata_shouldtrust checks neither the
\* sequence transition nor the timestamps: no comment of these checks is
\* returned, and a correctly signed, unexpired, correctly addressed message
\* is Trusted with an empty comment list whatever its sequence number and
\* timestamp.
C19_NoOldMessage ==
  (Done("shouldtrust") /\ req.old = None /\ NewSigned /\ NewVerified) =>
    /\ Returned
    /\ ~Has(Comments, "Invalid sequence transition")
    /\ ~Has(Comments, "Timestamps out of order")
    /\ ~Has(Comments, "Timestamps match")
    /\ (NewUnexpired /\ NewAddressedHere) => (Verdict = "True" /\ Comments = <<>>)

\* A first message with a non-zero counter and no timestamp is Trusted.
C19_Witness ==
  /\ Done("shouldtrust") /\ req.old = None /\ NewSigned
  /\ NewFields.sequenceno = SeqNo("a", 1)
  /\ NewFields.timestamp = None
  /\ Verdict = "True" /\ Comments = <<>>

\* ----------------------------------------------------------------------- C20
\* What the check gives on destination d under identity state h.
DestinedUnder(d, h) ==
  IF d = None THEN TRUE
  ELSE IF h = None THEN FALSE
  ELSE WholeElement(h[1], d[1])

\* C20: a check that ran while the identity was being set returns, and its
\* result is the result under one of the identity states held while it ran;
\* when an identity was set at its start, that is never the unset state.
C20_IdentityPublished ==
  pc = "done" =>
    /\ Returned
    /\ \E h \in held : out.val = DestinedUnder(req.destination, h)

\* The identity changed from one that matches to one that does not between
\* the presence test and the membership test; the check gave the result of
\* the new one.
C20_Witness ==
  /\ pc = "done"
  /\ held = {Some(n1), Some(n2)}
  /\ me = Some(n2)
  /\ req.destination = Some(n1)
  /\ out.val = FALSE

====
